---- MODULE Spec2Model ----
(***************************************************************************)
(* Model of polymarket-mcp: the MCP tool surface (server.py), the CLOB,    *)
(* Gamma and Data clients (client/*.py), the Polymarket helper class       *)
(* (client/polymarket.py) and the SimpleMarket schema                      *)
(* (datamodel/objects.py).                                                 *)
(*                                                                         *)
(* Conventions                                                             *)
(*   - Optional[T] is a sequence of length <= 1: None is << >> and a       *)
(*     present value v is << v >>.                                         *)
(*   - The outcome of a call is a record [exc, val, msg, base]: exc =      *)
(*     TRUE is a raised exception whose str() is msg; base = TRUE when it  *)
(*     is no Exception (a KeyboardInterrupt, a SystemExit).                *)
(*   - An f-string is the sequence of its pieces, so "the text contains    *)
(*     the message" is "the message is one of the pieces".                 *)
(*   - Order book prices are counted in units of 0.00001 and rounded       *)
(*     prices in units of 0.0001; the numbers of a market row are whole    *)
(*     numbers (True read as a float is 1).                                *)
(***************************************************************************)
EXTENDS Integers, Sequences, FiniteSets, TLC

VARIABLES
    config,       \* the environment's PRIVATE_KEY and the address self.address made from it
    handles,      \* server.py:15-17 truthiness of the module globals data, gamma, clob
    call,         \* the tool invocation last made: its name and arguments
    result,       \* what that invocation gave back to the caller
    raised,       \* the exception raised inside that invocation's try block: None or <<msg>>
    upstream,     \* the requests that invocation sent to the upstream services, in order
    gamma_run,    \* get_all_current_markets: local variables offset and all_markets
    chain,        \* the chain as the wallet sees it: its mined transaction count, the
                  \* nonces in the pool, the nonces redeem_position submitted, and
                  \* the redeem_position invocation that has read the count and
                  \* not yet submitted
    pages,        \* get_all_markets: the responses the upstream serves, in order
    fetched,      \* get_all_markets: number of get_sampling_markets requests made
    cursor,       \* get_all_markets: local variable cursor
    markets_out,  \* get_all_markets: local variable markets_out
    pc,           \* get_all_markets: "loop" while in the while-loop, "done" after return;
                  \* startup: the client under construction, then "idle" or "failed"
    market,       \* is_live: the normalized record m
    now,          \* is_live: datetime.now(timezone.utc)
    live          \* is_live: what the call gave: << >> before the call, then <<outcome>>

vars == <<config, handles, call, result, raised, upstream, gamma_run, chain, pages, fetched, cursor,
          markets_out, pc, market, now, live>>

-----------------------------------------------------------------------------
(* Bounds of the model *)

MaxLevels == 2     \* price levels per side of an order book
MaxPrice == 3      \* prices are 0, 5, ..., 5 * MaxPrice (units of 0.00001)
MaxBatch == 2      \* rows in one JSON list of the Gamma and Data services

-----------------------------------------------------------------------------
(* Python values *)

None == << >>
Some(v) == << v >>

Ok(v) == [exc |-> FALSE, val |-> v, msg |-> "", base |-> FALSE]
Raise(m) == [exc |-> TRUE, val |-> None, msg |-> m, base |-> FALSE]

\* An exception that is no Exception: KeyboardInterrupt, SystemExit, CancelledError,
\* GeneratorExit. "except Exception" does not catch it.
RaiseBase(m) == [exc |-> TRUE, val |-> None, msg |-> m, base |-> TRUE]

Contains(text, piece) == \E i \in 1..Len(text) : text[i] = piece

SeqsUpTo(S, n) == UNION {[1..k -> S] : k \in 0..n}

Tokens == {"tok1", "tok2"}
Msgs == {"API Error", "timeout"}

-----------------------------------------------------------------------------
(* Order book: client/clob.py *)

\* The doubles that are no finite number: float('inf'), float('-inf'), float('nan').
\* They stand outside the range of every finite value of the model; FloatGT, FloatLT
\* and FloatAdd give them the order and the arithmetic of IEEE 754.
PosInf == 1000000
NegInf == -PosInf
NaN == PosInf + 1

NonFinite == {NaN, PosInf, NegInf}

\* a > b and a < b on doubles: every comparison with nan is false.
FloatGT(a, b) == a # NaN /\ b # NaN /\ a > b
FloatLT(a, b) == a # NaN /\ b # NaN /\ a < b

\* a + b on doubles.
FloatAdd(a, b) ==
    IF a = NaN \/ b = NaN THEN NaN
    ELSE IF a \in NonFinite /\ b \in NonFinite THEN (IF a = b THEN a ELSE NaN)
    ELSE IF a \in NonFinite THEN a
    ELSE IF b \in NonFinite THEN b
    ELSE a + b

\* A price as the upstream sends it, a string: num says whether float() parses it,
\* v is the double it denotes, an integer of units 0.00001 or one of NonFinite
\* ("nan", "inf", "-inf", "Infinity" in any case).
FinitePrices == {[num |-> TRUE, v |-> 5 * p] : p \in 0..MaxPrice}
BadPrice == [num |-> FALSE, v |-> 0]
NonFinitePrices == {[num |-> TRUE, v |-> x] : x \in NonFinite}
PriceStrs == FinitePrices \cup {BadPrice} \cup NonFinitePrices

LevelsOf(prices) == {[price |-> p, size |-> "100"] : p \in prices}
Levels == LevelsOf(PriceStrs)

BooksOf(levels) == {[bids |-> b, asks |-> a] : b \in SeqsUpTo(levels, MaxLevels),
                                                a \in SeqsUpTo(levels, MaxLevels)}

\* The books of the model: those of finite and unparseable prices, and those in which
\* the prices that are no finite number meet one finite price.
Books == BooksOf(LevelsOf(FinitePrices \cup {BadPrice})) \cup
         BooksOf(LevelsOf(NonFinitePrices \cup {[num |-> TRUE, v |-> 5]}))

\* float(s): ValueError on a string that is no number.
Float(s) == IF s.num THEN Ok(s.v) ELSE Raise("could not convert string to float")

\* max(xs) and min(xs) of Python on a non-empty sequence: the first element, replaced
\* by each later element that compares greater (less) than the one held.
PyMax(xs) ==
    LET RECURSIVE walk(_, _)
        walk(i, best) == IF i > Len(xs) THEN best
                         ELSE walk(i + 1, IF FloatGT(xs[i], best) THEN xs[i] ELSE best)
    IN  walk(2, xs[1])

PyMin(xs) ==
    LET RECURSIVE walk(_, _)
        walk(i, best) == IF i > Len(xs) THEN best
                         ELSE walk(i + 1, IF FloatLT(xs[i], best) THEN xs[i] ELSE best)
    IN  walk(2, xs[1])

\* float(side[0].price): the first level taken for the best one.
FirstFloat(side) ==
    IF \E i \in 1..Len(side) : Float(side[i].price).exc
    THEN Raise("could not convert string to float")
    ELSE Ok(Some(Float(side[1].price).val))

\* max(float(b.price) for b in side): the generator raises at the first bad price.
MaxFloat(side) ==
    IF \E i \in 1..Len(side) : Float(side[i].price).exc
    THEN Raise("could not convert string to float")
    ELSE Ok(Some(PyMax([i \in 1..Len(side) |-> Float(side[i].price).val])))

\* min(float(a.price) for a in side)
MinFloat(side) ==
    IF \E i \in 1..Len(side) : Float(side[i].price).exc
    THEN Raise("could not convert string to float")
    ELSE Ok(Some(PyMin([i \in 1..Len(side) |-> Float(side[i].price).val])))

\* round((best_bid + best_ask) / 2.0, 4), in units of 0.0001. The sum s is in units
\* of 0.00001, so the quotient is s / 20 units. On an exact decimal tie the double
\* nearest to the quotient lies on one side or the other, and tie_up says which.
Round4Half(s, tie_up) ==
    LET q == s \div 20
        r == s % 20
    IN  IF s \in NonFinite THEN s
        ELSE IF r < 10 THEN q
        ELSE IF r > 10 THEN q + 1
        ELSE IF tie_up THEN q + 1 ELSE q

\* The try block with an empty side counted as price 0.
MidFromBookTryZero(ob, tie_up) ==
    LET best_bid == IF ob.bids # << >> THEN MaxFloat(ob.bids) ELSE Ok(Some(0))
        best_ask == IF ob.asks # << >> THEN MinFloat(ob.asks) ELSE Ok(Some(0))
    IN  IF best_bid.exc THEN best_bid
        ELSE IF best_ask.exc THEN best_ask
        ELSE Ok(Some(Round4Half(FloatAdd(best_bid.val[1], best_ask.val[1]), tie_up)))

\* The body of the try block of get_mid_from_book.
MidFromBookTry(ob, tie_up) ==
    LET best_bid == IF ob.bids # << >> THEN MaxFloat(ob.bids) ELSE Ok(None)
        best_ask == IF ob.asks # << >> THEN MinFloat(ob.asks) ELSE Ok(None)
    IN  IF best_bid.exc THEN best_bid
        ELSE IF best_ask.exc THEN best_ask
        ELSE IF best_bid.val = None \/ best_ask.val = None THEN Ok(None)
        ELSE Ok(Some(Round4Half(FloatAdd(best_bid.val[1], best_ask.val[1]), tie_up)))

\* The try block without its except clause.
MidFromBookNoExcept(ob, tie_up) == MidFromBookTry(ob, tie_up)

\* try: ... except Exception: return None
MidFromBook(ob, tie_up) ==
    LET r == MidFromBookTry(ob, tie_up)
    IN  IF r.exc /\ ~r.base THEN Ok(None) ELSE r

\* CLOBClient.get_orderbook: the upstream's answer, or its failure.
CLOB_get_orderbook(resp) == resp

\* CLOBClient.get_mid_from_book: the fetch is outside the try block.
CLOB_get_mid_from_book(resp, tie_up) ==
    LET ob == CLOB_get_orderbook(resp)
    IN  IF ob.exc THEN ob ELSE MidFromBook(ob.val, tie_up)

\* CLOBClient.get_price: float(self.client.get_price(token_id, side=side))
CLOB_get_price(resp) == IF resp.exc THEN resp ELSE Float(resp.val)

-----------------------------------------------------------------------------
(* Orders: client/clob.py and py_clob_client.clob_types.OrderType *)

\* The Python interpreters the server runs on (the source names none), and those
\* from a given one on.
Interpreters == {"3.9", "3.10", "3.11", "3.12", "3.13"}

Since == [py \in Interpreters |->
             CASE py = "3.9" -> Interpreters
               [] py = "3.10" -> Interpreters \ {"3.9"}
               [] py = "3.11" -> {"3.11", "3.12", "3.13"}
               [] py = "3.12" -> {"3.12", "3.13"}
               [] py = "3.13" -> {"3.13"}]

OrderTypeMembers == {"GTC", "FOK", "GTD", "FAK"}

\* The attributes of the class OrderType that getattr reaches on every interpreter:
\* its members, and the attributes every Python class has, from object, from type
\* and from the base class enumerate. A member is its string; an attribute that is
\* no string is written by what it is: None, the class it names, or the type of
\* the object in angle brackets.
OrderTypeAttrsAll ==
    [a \in OrderTypeMembers |-> a] @@
    [a \in {"__name__", "__qualname__"} |-> "OrderType"] @@
    [a \in {"__module__"} |-> "py_clob_client.clob_types"] @@
    [a \in {"__class_getitem__", "__init_subclass__", "__instancecheck__", "__new__", "__prepare__",
             "__subclasscheck__", "__subclasses__", "__subclasshook__", "mro"} |->
         "<builtin_function_or_method>"] @@
    [a \in {"__base__"} |->
         "<class 'enumerate'>"] @@
    [a \in {"__class__"} |->
         "<class 'type'>"] @@
    [a \in {"__weakref__"} |->
         "<getset_descriptor>"] @@
    [a \in {"__basicsize__", "__dictoffset__", "__flags__", "__itemsize__", "__weakrefoffset__"} |->
         "<int>"] @@
    [a \in {"__dict__"} |->
         "<mappingproxy>"] @@
    [a \in {"__call__"} |->
         "<method-wrapper>"] @@
    [a \in {"__dir__", "__format__", "__reduce__", "__reduce_ex__", "__sizeof__"} |->
         "<method_descriptor>"] @@
    [a \in {"__bases__", "__mro__"} |->
         "<tuple>"] @@
    [a \in {"__delattr__", "__eq__", "__ge__", "__getattribute__", "__gt__", "__hash__", "__init__",
             "__iter__", "__le__", "__lt__", "__ne__", "__next__", "__repr__", "__setattr__",
             "__str__"} |->
         "<wrapper_descriptor>"] @@
    [a \in {"__doc__", "__text_signature__"} |->
         "None"]

\* The attributes a class has from one interpreter on: type.__or__, type.__ror__ and
\* the __annotations__ of a class that annotates nothing from 3.10, object.__getstate__
\* from 3.11, __type_params__ from 3.12, __firstlineno__ and __static_attributes__
\* from 3.13.
OrderTypeAttrsSince ==
    [a \in {"__or__", "__ror__"} |-> [from |-> "3.10", is |-> "<method-wrapper>"]] @@
    [a \in {"__annotations__"} |-> [from |-> "3.10", is |-> "<dict>"]] @@
    [a \in {"__getstate__"} |-> [from |-> "3.11", is |-> "<method_descriptor>"]] @@
    [a \in {"__type_params__"} |-> [from |-> "3.12", is |-> "<tuple>"]] @@
    [a \in {"__firstlineno__"} |-> [from |-> "3.13", is |-> "<int>"]] @@
    [a \in {"__static_attributes__"} |-> [from |-> "3.13", is |-> "<tuple>"]]

\* The attributes of the class OrderType on each interpreter.
OrderTypeAttrs ==
    [py \in Interpreters |->
        OrderTypeAttrsAll @@
        [a \in {b \in DOMAIN OrderTypeAttrsSince : py \in Since[OrderTypeAttrsSince[b].from]} |->
            OrderTypeAttrsSince[a].is]]

\* getattr(OrderType, order_type, OrderType.FOK) on the interpreter py
GetattrOrderType(order_type, py) ==
    IF order_type \in DOMAIN OrderTypeAttrs[py] THEN OrderTypeAttrs[py][order_type]
    ELSE OrderTypeAttrs[py]["FOK"]

\* execute_limit_order with the price and the size in each other's field.
CLOB_execute_limit_order_swapped(token_id, price, size, side, resp) ==
    [out |-> resp,
     reqs |-> << [api |-> "create_and_post_order",
                  args |-> [token_id |-> token_id, price |-> size,
                            size |-> price, side |-> side]] >>]

\* CLOBClient.execute_limit_order: one create_and_post_order request.
CLOB_execute_limit_order(token_id, price, size, side, resp) ==
    [out |-> resp,
     reqs |-> << [api |-> "create_and_post_order",
                  args |-> [token_id |-> token_id, price |-> price,
                            size |-> size, side |-> side]] >>]

\* CLOBClient.execute_market_order: create_market_order signs, post_order submits.
CLOB_execute_market_order(token_id, amount, order_type, signResp, postResp) ==
    LET create == [api |-> "create_market_order",
                   args |-> [token_id |-> token_id, amount |-> amount]]
        post == [api |-> "post_order", args |-> [orderType |-> order_type]]
    IN  IF signResp.exc THEN [out |-> signResp, reqs |-> << create >>]
        ELSE [out |-> postResp, reqs |-> << create, post >>]

\* cancel_order that asks again when the cancel request fails.
CLOB_cancel_order_retry(order_id, resp) ==
    LET cancel == [api |-> "cancel", args |-> [order_id |-> order_id]]
    IN  [out |-> resp, reqs |-> IF resp.exc THEN << cancel, cancel >> ELSE << cancel >>]

\* CLOBClient.cancel_order: one cancel request.
CLOB_cancel_order(order_id, resp) ==
    [out |-> resp, reqs |-> << [api |-> "cancel", args |-> [order_id |-> order_id]] >>]

-----------------------------------------------------------------------------
(* JSON bodies of the HTTP services: what response.json() gives *)

JList(rows) == [t |-> "list", v |-> rows]
JDict(keys) == [t |-> "dict", v |-> keys]
JNull == [t |-> "null", v |-> << >>]

\* len(x): a list's length, a dict's number of keys, TypeError for None.
PyLen(j) ==
    IF j.t \in {"list", "dict"} THEN Ok(Len(j.v))
    ELSE Raise("object of type 'NoneType' has no len()")

\* len(x) if isinstance(x, list) else 0
LenIfList(j) == IF j.t = "list" THEN Len(j.v) ELSE 0

-----------------------------------------------------------------------------
(* Gamma client: client/gamma.py *)

GammaDefaultLimit == 100

\* GammaClient.get_markets(self, querystring_params=None): a keyword the signature
\* does not have is a TypeError before any request is sent.
Gamma_get_markets(kwargs, params, resp) ==
    IF ~(kwargs \subseteq {"querystring_params"})
    THEN [out |-> Raise("get_markets() got an unexpected keyword argument"),
          reqs |-> << >>]
    ELSE [out |-> resp, reqs |-> << [api |-> "GET /markets", args |-> params] >>]

\* GammaClient.get_current_markets
Gamma_get_current_markets(limit, resp) ==
    Gamma_get_markets({"querystring_params"},
                      [active |-> TRUE, closed |-> FALSE, archived |-> FALSE,
                       limit |-> limit], resp)

\* One pass of the while-loop that never advances the offset.
GammaPassNoAdvance(limit, run, resp) ==
    LET got == Gamma_get_markets({"querystring_params"},
                                 [active |-> TRUE, closed |-> FALSE, archived |-> FALSE,
                                  limit |-> limit, offset |-> run.offset], resp)
        batch == got.out.val
        all == run.all_markets \o batch.v
    IN  IF got.out.exc THEN [run |-> run, out |-> got.out, reqs |-> got.reqs, done |-> TRUE]
        ELSE IF batch.t = "null"
        THEN [run |-> run, out |-> Raise("'NoneType' object is not iterable"),
              reqs |-> got.reqs, done |-> TRUE]
        ELSE [run |-> [offset |-> run.offset, all_markets |-> all],
              out |-> Ok(JList(all)), reqs |-> got.reqs, done |-> Len(batch.v) < limit]

\* One pass of the while-loop of get_all_current_markets over the response resp,
\* from the locals run = [offset, all_markets]: the request, the extend, the test
\* len(market_batch) < limit. done says the loop is left (by break or by a raise);
\* out is then what the method gives.
GammaPass(limit, run, resp) ==
    LET got == Gamma_get_markets({"querystring_params"},
                                 [active |-> TRUE, closed |-> FALSE, archived |-> FALSE,
                                  limit |-> limit, offset |-> run.offset], resp)
        batch == got.out.val
        all == run.all_markets \o batch.v
    IN  IF got.out.exc THEN [run |-> run, out |-> got.out, reqs |-> got.reqs, done |-> TRUE]
        ELSE IF batch.t = "null"
        THEN [run |-> run, out |-> Raise("'NoneType' object is not iterable"),
              reqs |-> got.reqs, done |-> TRUE]
        ELSE IF Len(batch.v) < limit
        THEN [run |-> [offset |-> run.offset, all_markets |-> all],
              out |-> Ok(JList(all)), reqs |-> got.reqs, done |-> TRUE]
        ELSE [run |-> [offset |-> run.offset + limit, all_markets |-> all],
              out |-> Ok(JList(all)), reqs |-> got.reqs, done |-> FALSE]

\* GammaClient.get_all_current_markets: the while-loop from its i-th request on.
\* starved says the loop asked for more responses than resps holds.
RECURSIVE GammaAllLoop(_, _, _, _, _, _)
GammaAllLoop(limit, resps, i, offset, all_markets, reqs) ==
    IF i > Len(resps)
    THEN [out |-> Raise("no response"), reqs |-> reqs, starved |-> TRUE]
    ELSE
    LET pass == GammaPass(limit, [offset |-> offset, all_markets |-> all_markets], resps[i])
        sent == reqs \o pass.reqs
    IN  IF pass.done THEN [out |-> pass.out, reqs |-> sent, starved |-> FALSE]
        ELSE GammaAllLoop(limit, resps, i + 1, pass.run.offset, pass.run.all_markets, sent)

Gamma_get_all_current_markets(resps) ==
    GammaAllLoop(GammaDefaultLimit, resps, 1, 0, << >>, << >>)

-----------------------------------------------------------------------------
(* Data client: client/data.py *)

\* self.address: the address of the account of PRIVATE_KEY.
ConfigAddress == "0xServer"

\* The configuration of a server that has started: a usable signing key and the
\* address derived from it.
Configured == [private_key |-> Some("0xkey"), address |-> Some(ConfigAddress)]

\* The user parameter that ignores the given address.
UserAlwaysSelf(user) == config.address[1]

\* user if user is not None else self.address
UserOrSelf(user) == IF user # None THEN user[1] ELSE config.address[1]

\* params = dict(querystring_params or {}); params["user"] = ...; httpx.get(...).json()
\* params is a copy: the assignment of "user" does not reach the caller's mapping,
\* which caller_params gives as it is after the call.
DataGet(endpoint, user, querystring_params, resp) ==
    LET params == [user |-> UserOrSelf(user)] @@ querystring_params
    IN  [out |-> resp,
         reqs |-> << [api |-> endpoint, args |-> params] >>,
         caller_params |-> querystring_params]

Data_get_positions(user, qs, resp) == DataGet("GET /positions", user, qs, resp)
Data_get_closed_positions(user, qs, resp) == DataGet("GET /closed-positions", user, qs, resp)
Data_get_trades(user, qs, resp) == DataGet("GET /trades", user, qs, resp)
Data_get_portfolio_value(user, resp) == DataGet("GET /value", user, << >>, resp)

\* DataClient.get_usdc_balance: balanceOf(owner).call() / 10 ** USDC_DECIMALS. The
\* balance is kept as the raw count of 10^-6 USDC.
Data_get_usdc_balance(user, resp) ==
    [out |-> resp,
     reqs |-> << [api |-> "balanceOf", args |-> [owner |-> UserOrSelf(user)]] >>]

\* DataClient.redeem_position, in the order Python evaluates it: Web3.toChecksumAddress
\* and Web3.toBytes(hexstr=condition_id) for the arguments of redeemPositions, then
\* eth.get_transaction_count and eth.gas_price for the fields of the transaction,
\* buildTransaction, eth.estimate_gas, account.sign_transaction and
\* eth.send_raw_transaction. The first failure ends the call.
RedeemSteps == << "toChecksumAddress", "toBytes", "get_transaction_count", "gas_price",
                 "buildTransaction", "estimate_gas", "sign_transaction",
                 "send_raw_transaction" >>

\* The steps that work in the process and send nothing; the others are requests to
\* the chain's node.
LocalSteps == {"toChecksumAddress", "toBytes", "buildTransaction", "sign_transaction"}

\* The outcome of each step: toBytes raises on text that is no hexadecimal, the
\* others are what the library and the node answered, rpc.
StepOutcomes(condition_id, rpc) ==
    << rpc.checksum,
       IF condition_id.hex THEN Ok("bytes") ELSE Raise("Non-hexadecimal digit found"),
       rpc.count, rpc.gas_price, rpc.build, rpc.estimate, rpc.sign, rpc.send >>

\* The step of redeem_position that ends it: the first that fails, or the last.
LastStep(outs) ==
    LET fails == {k \in 1..Len(RedeemSteps) : outs[k].exc}
    IN  IF fails = {} THEN Len(RedeemSteps) ELSE CHOOSE k \in fails : \A j \in fails : k <= j

\* The requests of the steps up to the step last.
RedeemRequests(condition_id, index_sets, rpc, last) ==
    LET ks == SelectSeq([k \in 1..last |-> k],
                        LAMBDA k : RedeemSteps[k] \notin LocalSteps)
    IN  [j \in 1..Len(ks) |->
            [api |-> RedeemSteps[ks[j]],
             args |-> IF ks[j] = Len(RedeemSteps)
                      THEN [condition_id |-> condition_id.text,
                            index_sets |-> index_sets, nonce |-> rpc.count.val]
                      ELSE [from |-> config.address[1]]]]

\* redeem_position that submits the transaction again when the submission failed.
Data_redeem_position_resend(condition_id, index_sets, rpc) ==
    LET outs == StepOutcomes(condition_id, rpc)
        last == LastStep(outs)
        reqs == RedeemRequests(condition_id, index_sets, rpc, last)
    IN  [out |-> outs[last],
         reqs |-> IF last = Len(RedeemSteps) /\ outs[last].exc
                  THEN Append(reqs, reqs[Len(reqs)]) ELSE reqs]

Data_redeem_position(condition_id, index_sets, rpc) ==
    LET outs == StepOutcomes(condition_id, rpc)
        last == LastStep(outs)
    IN  [out |-> outs[last],
         reqs |-> RedeemRequests(condition_id, index_sets, rpc, last)]

-----------------------------------------------------------------------------
(* The tools: server.py. Each gives [out, raised, reqs]: what the caller gets   *)
(* (an outcome: a result mapping, or an exception that escaped), the exception *)
(* raised inside the try block if any, and the requests sent upstream.         *)

NoExtra == << >>

\* The body without the except clause.
TryNoExcept(body, prefix, extra) == body

\* try: <body> except Exception as e: return {"error": f"<prefix>{str(e)}", **extra}
TryExcept(body, prefix, extra) ==
    IF body.exc /\ ~body.base THEN Ok([error |-> << prefix, body.msg >>] @@ extra)
    ELSE body

Reply(body, prefix, extra, reqs) ==
    [out |-> TryExcept(body, prefix, extra),
     raised |-> IF body.exc THEN Some(body.msg) ELSE None,
     reqs |-> reqs]

\* if not <client>: return {"error": "Polymarket <which> client not initialized"}
NotInitialized(which) ==
    [out |-> Ok([error |-> << "Polymarket ", which, " client not initialized" >>]),
     raised |-> None, reqs |-> << >>]

\* then(v) for a body that returned v, the exception for a body that raised.
Then(o, mapping) == IF o.exc THEN o ELSE Ok(mapping)

get_market(slug, resp) ==
    IF ~handles.gamma THEN NotInitialized("Gamma")
    ELSE LET c == Gamma_get_markets({"querystring_params", "parse_pydantic"},
                                    [slug |-> slug], resp)
             n == IF c.out.exc THEN c.out ELSE PyLen(c.out.val)
         IN  Reply(IF n.exc THEN n ELSE Ok([markets |-> c.out.val, count |-> n.val]),
                   "Error getting market: ", [market |-> None], c.reqs)

\* The failure of a method call on a module global that is None.
NoneHasNo == [m \in {"get_current_markets", "get_all_current_markets", "get_usdc_balance"} |->
    CASE m = "get_current_markets" ->
             Raise("'NoneType' object has no attribute 'get_current_markets'")
      [] m = "get_all_current_markets" ->
             Raise("'NoneType' object has no attribute 'get_all_current_markets'")
      [] m = "get_usdc_balance" ->
             Raise("'NoneType' object has no attribute 'get_usdc_balance'")]

\* return {"markets": markets, "count": len(markets)}, or the except clause, for
\* the outcome c of the call to gamma.
MarketsReply(c) ==
    LET n == IF c.out.exc THEN c.out ELSE PyLen(c.out.val)
    IN  Reply(IF n.exc THEN n ELSE Ok([markets |-> c.out.val, count |-> n.val]),
              "Error getting markets: ", [markets |-> << >>], c.reqs)

\* The guard tests clob; the calls go to gamma.
get_markets(limit, resps) ==
    IF ~handles.clob THEN NotInitialized("CLOB")
    ELSE IF ~handles.gamma
    THEN Reply(NoneHasNo[IF limit # None THEN "get_current_markets"
                         ELSE "get_all_current_markets"],
               "Error getting markets: ", [markets |-> << >>], << >>)
    ELSE MarketsReply(IF limit # None THEN Gamma_get_current_markets(limit[1], resps[1])
                      ELSE Gamma_get_all_current_markets(resps))

get_order_book(token_id, resp) ==
    IF ~handles.clob THEN NotInitialized("CLOB")
    ELSE LET ob == CLOB_get_orderbook(resp)
             view(side) == [i \in 1..Len(side) |->
                              [price |-> side[i].price, size |-> side[i].size]]
         IN  Reply(IF ob.exc THEN ob
                   ELSE Ok([token_id |-> token_id, bids |-> view(ob.val.bids),
                            asks |-> view(ob.val.asks)]),
                   "Error getting order book: ", NoExtra,
                   << [api |-> "get_order_book", args |-> [token_id |-> token_id]] >>)

get_mid_price(token_id, resp, tie_up) ==
    IF ~handles.clob THEN NotInitialized("CLOB")
    ELSE LET mid_price == CLOB_get_mid_from_book(resp, tie_up)
         IN  Reply(Then(mid_price, [token_id |-> token_id, mid_price |-> mid_price.val]),
                   "Error getting mid price: ", NoExtra,
                   << [api |-> "get_order_book", args |-> [token_id |-> token_id]] >>)

get_price(token_id, side, resp) ==
    IF ~handles.clob THEN NotInitialized("CLOB")
    ELSE LET price == CLOB_get_price(resp)
         IN  Reply(Then(price, [token_id |-> token_id, side |-> side, price |-> price.val]),
                   "Error getting price: ", NoExtra,
                   << [api |-> "get_price", args |-> [token_id |-> token_id, side |-> side]] >>)

place_limit_order(token_id, price, size, side, resp) ==
    IF ~handles.clob THEN NotInitialized("CLOB")
    ELSE LET c == CLOB_execute_limit_order(token_id, price, size, side, resp)
         IN  Reply(Then(c.out, [order_id |-> c.out.val, token_id |-> token_id,
                                price |-> price, size |-> size, side |-> side]),
                   "Error placing limit order: ", NoExtra, c.reqs)

place_market_order(token_id, amount, order_type, signResp, postResp, py) ==
    IF ~handles.clob THEN NotInitialized("CLOB")
    ELSE LET order_type_enum == GetattrOrderType(order_type, py)
             c == CLOB_execute_market_order(token_id, amount, order_type_enum,
                                            signResp, postResp)
         IN  Reply(Then(c.out, [result |-> c.out.val, token_id |-> token_id,
                                amount |-> amount, order_type |-> order_type]),
                   "Error placing market order: ", NoExtra, c.reqs)

cancel_order(order_id, resp) ==
    IF ~handles.clob THEN NotInitialized("CLOB")
    ELSE LET c == CLOB_cancel_order(order_id, resp)
         IN  Reply(Then(c.out, [result |-> c.out.val, order_id |-> order_id]),
                   "Error cancelling order: ", NoExtra, c.reqs)

\* The guard tests clob; the balance is read through data, the address from clob.
get_usdc_balance(user, resp) ==
    IF ~handles.clob THEN NotInitialized("CLOB")
    ELSE IF ~handles.data
    THEN Reply(NoneHasNo["get_usdc_balance"], "Error getting USDC balance: ", NoExtra, << >>)
    ELSE LET c == Data_get_usdc_balance(user, resp)
         IN  Reply(Then(c.out, [address |-> config.address[1], usdc_balance |-> c.out.val]),
                   "Error getting USDC balance: ", NoExtra, c.reqs)

get_portfolio_value(user, resp) ==
    IF ~handles.data THEN NotInitialized("Data")
    ELSE LET c == Data_get_portfolio_value(user, resp)
         IN  Reply(Then(c.out, [user |-> user, portfolio_value |-> c.out.val]),
                   "Error getting portfolio value: ", [portfolio_value |-> << >>], c.reqs)

\* params = {"limit": limit} if limit is not None else {}
LimitParams(limit) == IF limit # None THEN [limit |-> limit[1]] ELSE << >>

get_positions(user, limit, resp) ==
    IF ~handles.data THEN NotInitialized("Data")
    ELSE LET c == Data_get_positions(user, LimitParams(limit), resp)
         IN  Reply(Then(c.out, [user |-> user, positions |-> c.out.val,
                                count |-> LenIfList(c.out.val)]),
                   "Error getting positions: ", [positions |-> << >>], c.reqs)

get_closed_positions(user, limit, resp) ==
    IF ~handles.data THEN NotInitialized("Data")
    ELSE LET c == Data_get_closed_positions(user, LimitParams(limit), resp)
         IN  Reply(Then(c.out, [user |-> user, closed_positions |-> c.out.val,
                                count |-> LenIfList(c.out.val)]),
                   "Error getting closed positions: ", [closed_positions |-> << >>], c.reqs)

get_trades(user, limit, resp) ==
    IF ~handles.data THEN NotInitialized("Data")
    ELSE LET c == Data_get_trades(user, LimitParams(limit), resp)
         IN  Reply(Then(c.out, [user |-> user, trades |-> c.out.val,
                                count |-> LenIfList(c.out.val)]),
                   "Error getting trades: ", [trades |-> << >>], c.reqs)

redeem_position(condition_id, index_sets, rpc) ==
    IF ~handles.data THEN NotInitialized("Data")
    ELSE LET c == Data_redeem_position(condition_id, index_sets, rpc)
         IN  Reply(Then(c.out, [condition_id |-> condition_id.text,
                                index_sets |-> index_sets, tx_hash |-> c.out.val]),
                   "Error redeeming position: ", NoExtra, c.reqs)

-----------------------------------------------------------------------------
(* The server: one action per tool invocation, its arguments and the upstream's *)
(* answers drawn from small sets.                                              *)

\* What a request gives: an answer, a failure, or an interrupt of the process while
\* it waits for the answer.
Resp(V) == {Ok(v) : v \in V} \cup {Raise(m) : m \in Msgs} \cup {RaiseBase("stop")}

Limits == {None, Some(1), Some(2)}
Sides == {"BUY", "SELL"}
Users == {None, Some("0xUser")}
OrderPrices == {-5, 0, 50000, 150000}
OrderSizes == {-100, 0, 100}
OrderTypeStrs == OrderTypeMembers \cup
                 {"IOC", "fok", "", "bogus", "__name__", "__qualname__", "__module__",
                  "__doc__", "__class__", "__dict__", "mro", "__annotations__",
                  "__getstate__", "__type_params__", "__firstlineno__"}
ConditionIds == {[text |-> "0xb4fa", hex |-> TRUE], [text |-> "zz", hex |-> FALSE]}
GammaBodies == {JList(r) : r \in SeqsUpTo({"m1", "m2"}, MaxBatch)} \cup
               {JDict(<< "error" >>), JNull}
DataBodies == {JList(r) : r \in SeqsUpTo({"p1"}, MaxBatch)} \cup {JDict(<< "error" >>)}
\* What the library and the node answer to the steps of a redemption. The web3 that
\* web3.middleware.ExtraDataToPOAMiddleware (client/clob.py) comes from has no
\* Web3.toChecksumAddress; the one that has it answers with the address.
NoChecksum == Raise("type object 'Web3' has no attribute 'toChecksumAddress'")

RpcRespsAt(counts) ==
    {[checksum |-> c, count |-> n, gas_price |-> g, build |-> b, estimate |-> e,
      sign |-> s, send |-> t] :
        c \in {Ok("0x2791"), NoChecksum}, n \in Resp(counts), g \in Resp({30}),
        b \in {Ok("tx"), Raise("execution reverted")}, e \in Resp({21000}),
        s \in {Ok("signed"), Raise("bad key")}, t \in Resp({"0xhash"})}

RpcResps == RpcRespsAt(0..1)

\* What becomes of a submitted transaction on the chain.
OnChain == {"mined", "reverted", "dropped"}

NoGammaRun == [offset |-> 0, all_markets |-> << >>]
NoChain == [count |-> 0, pending |-> {}, sent |-> << >>, reading |-> << >>]
NoMarketsRun == [pages |-> << >>, fetched |-> 0, cursor |-> None,
                 markets_out |-> << >>, pc |-> "idle"]
NoLiveRun == [market |-> << >>, now |-> 0, live |-> None]

OtherIdle ==
    /\ gamma_run = NoGammaRun
    /\ chain = NoChain
    /\ pages = NoMarketsRun.pages /\ fetched = NoMarketsRun.fetched
    /\ cursor = NoMarketsRun.cursor /\ markets_out = NoMarketsRun.markets_out
    /\ pc = NoMarketsRun.pc

ServerIdle ==
    /\ config = Configured
    /\ handles = [data |-> TRUE, gamma |-> TRUE, clob |-> TRUE]
    /\ call = [tool |-> "none"]
    /\ result = Ok(<< >>)
    /\ raised = None
    /\ upstream = << >>

\* An invocation that drops the client handles when its client call has failed.
InvokeResetOnError(tool, args, resp, r) ==
    /\ call' = [tool |-> tool, args |-> args, resp |-> resp]
    /\ result' = r.out
    /\ raised' = r.raised
    /\ upstream' = r.reqs
    /\ handles' = IF r.raised # None
                  THEN [data |-> FALSE, gamma |-> FALSE, clob |-> FALSE] ELSE handles
    /\ UNCHANGED <<config, gamma_run, chain, pages, fetched, cursor, markets_out, pc, market, now,
                   live>>

\* The server takes a request when it has none outstanding (the guard of each tool's
\* action) and runs the tool's handler to its return.
Invoke(tool, args, resp, r) ==
    /\ call' = [tool |-> tool, args |-> args, resp |-> resp]
    /\ result' = r.out
    /\ raised' = r.raised
    /\ upstream' = r.reqs
    /\ UNCHANGED <<config, handles, gamma_run, chain, pages, fetched, cursor, markets_out, pc,
                   market, now, live>>

GetMarket ==
    /\ call.tool = "none"
    /\ \E slug \in {"slug-a", "slug-b"}, resp \in Resp(GammaBodies) :
        Invoke("get_market", [slug |-> slug], resp, get_market(slug, resp))

GetMarkets ==
    /\ call.tool = "none"
    /\ \E limit \in Limits, resps \in SeqsUpTo(Resp(GammaBodies), 2) :
        LET r == get_markets(limit, resps)
        IN  /\ resps # << >>
            /\ IF limit # None THEN Len(resps) = 1
               ELSE /\ ~Gamma_get_all_current_markets(resps).starved
                    /\ Len(Gamma_get_all_current_markets(resps).reqs) = Len(resps)
            /\ Invoke("get_markets", [limit |-> limit], resps, r)

\* get_order_book answered from the books of a set.
GetOrderBookOf(books) ==
    /\ call.tool = "none"
    /\ \E token_id \in Tokens, resp \in Resp(books) :
        Invoke("get_order_book", [token_id |-> token_id], resp,
               get_order_book(token_id, resp))

GetOrderBook == GetOrderBookOf(Books)

\* get_mid_price answered from the books of a set.
GetMidPriceOf(books) ==
    /\ call.tool = "none"
    /\ \E token_id \in Tokens, resp \in Resp(books), tie_up \in BOOLEAN :
        Invoke("get_mid_price", [token_id |-> token_id, tie_up |-> tie_up], resp,
               get_mid_price(token_id, resp, tie_up))

GetMidPrice == GetMidPriceOf(Books)

GetPrice ==
    /\ call.tool = "none"
    /\ \E token_id \in Tokens, side \in Sides, resp \in Resp(PriceStrs) :
        Invoke("get_price", [token_id |-> token_id, side |-> side], resp,
               get_price(token_id, side, resp))

PlaceLimitOrder ==
    /\ call.tool = "none"
    /\ \E token_id \in Tokens, price \in OrderPrices, size \in OrderSizes, side \in Sides,
       resp \in Resp({"order_123"}) :
        Invoke("place_limit_order",
               [token_id |-> token_id, price |-> price, size |-> size, side |-> side],
               resp, place_limit_order(token_id, price, size, side, resp))

PlaceMarketOrder ==
    /\ call.tool = "none"
    /\ \E token_id \in Tokens, amount \in {50}, order_type \in OrderTypeStrs,
       signResp \in Resp({"signed"}), postResp \in Resp({"posted"}),
       py \in Interpreters :
        Invoke("place_market_order",
               [token_id |-> token_id, amount |-> amount, order_type |-> order_type],
               << signResp, postResp >>,
               place_market_order(token_id, amount, order_type, signResp, postResp, py))

CancelOrder ==
    /\ call.tool = "none"
    /\ \E order_id \in {"order_123", "unknown"}, resp \in Resp({"canceled"}) :
        Invoke("cancel_order", [order_id |-> order_id], resp, cancel_order(order_id, resp))

GetUsdcBalance ==
    /\ call.tool = "none"
    /\ \E user \in Users, resp \in Resp({0, 1000000}) :
        Invoke("get_usdc_balance", [user |-> user], resp, get_usdc_balance(user, resp))

GetPortfolioValue ==
    /\ call.tool = "none"
    /\ \E user \in Users, resp \in Resp(DataBodies) :
        Invoke("get_portfolio_value", [user |-> user], resp,
               get_portfolio_value(user, resp))

GetPositions ==
    /\ call.tool = "none"
    /\ \E user \in Users, limit \in Limits, resp \in Resp(DataBodies) :
        Invoke("get_positions", [user |-> user, limit |-> limit], resp,
               get_positions(user, limit, resp))

GetClosedPositions ==
    /\ call.tool = "none"
    /\ \E user \in Users, limit \in Limits, resp \in Resp(DataBodies) :
        Invoke("get_closed_positions", [user |-> user, limit |-> limit], resp,
               get_closed_positions(user, limit, resp))

GetTrades ==
    /\ call.tool = "none"
    /\ \E user \in Users, limit \in Limits, resp \in Resp(DataBodies) :
        Invoke("get_trades", [user |-> user, limit |-> limit], resp,
               get_trades(user, limit, resp))

RedeemPosition ==
    /\ call.tool = "none"
    /\ \E condition_id \in ConditionIds, index_sets \in {<< 1, 2 >>}, rpc \in RpcResps,
          onchain \in OnChain :
        Invoke("redeem_position",
               [condition_id |-> condition_id.text, index_sets |-> index_sets],
               [rpc |-> rpc, onchain |-> onchain],
               redeem_position(condition_id, index_sets, rpc))

\* The tools server.py registers with @mcp.tool.
ToolNames ==
    {"get_market", "get_markets", "get_order_book", "get_mid_price", "get_price",
     "place_limit_order", "place_market_order", "cancel_order", "get_usdc_balance",
     "get_portfolio_value", "get_positions", "get_closed_positions", "get_trades",
     "redeem_position"}

\* The tool registry's answer to a call of a name that no @mcp.tool registers: an
\* error result, with no handler run and no request sent.
UnknownTool(name) ==
    [out |-> Ok([error |-> << "Unknown tool: ", name >>]), raised |-> None, reqs |-> << >>]

\* Questions and query texts, as sequences of characters.
Questions ==
    {None, Some(<< "R", "a", "i", "n", "?" >>), Some(<< "r", "a", "i", "n" >>),
     Some(<< "S", "u", "n" >>)}
Queries == {<< "r", "a", "i", "n" >>, << "R", "A", "I", "N" >>}

\* A caller asks for search_markets(query, limit) while the upstream lists records.
SearchMarkets ==
    /\ call.tool = "none"
    /\ "search_markets" \notin ToolNames
    /\ \E query \in Queries, limit \in Limits,
          records \in SeqsUpTo({[question |-> q] : q \in Questions}, MaxBatch) :
          Invoke("search_markets", [query |-> query, limit |-> limit], Ok(records),
                 UnknownTool("search_markets"))

\* mcp.run: the result mapping is serialized to the caller and the server waits for
\* the next request.
Respond ==
    /\ call.tool # "none"
    /\ call' = [tool |-> "none"]
    /\ result' = Ok(<< >>)
    /\ raised' = None
    /\ upstream' = << >>
    /\ UNCHANGED <<config, handles, gamma_run, chain, pages, fetched, cursor, markets_out, pc,
                   market, now, live>>

Init ==
    /\ ServerIdle
    /\ OtherIdle
    /\ market = NoLiveRun.market /\ now = NoLiveRun.now /\ live = NoLiveRun.live

Next ==
    \/ GetMarket
    \/ GetMarkets
    \/ GetOrderBook
    \/ GetMidPrice
    \/ GetPrice
    \/ PlaceLimitOrder
    \/ PlaceMarketOrder
    \/ CancelOrder
    \/ GetUsdcBalance
    \/ GetPortfolioValue
    \/ GetPositions
    \/ GetClosedPositions
    \/ GetTrades
    \/ RedeemPosition
    \/ SearchMarkets
    \/ Respond

Spec == Init /\ [][Next]_vars

-----------------------------------------------------------------------------
(* SimpleMarket: datamodel/objects.py. An upstream row is a function from the   *)
(* keys it carries to JSON values [t, v]; t is the JSON type.                   *)

JS(x) == [t |-> "str", v |-> x]
JB(x) == [t |-> "bool", v |-> x]
JN(x) == [t |-> "num", v |-> x]
JL(x) == [t |-> "list", v |-> x]
JO(x) == [t |-> "dict", v |-> x]

DefaultLiquidity == 10000

Invalid == Raise("ValidationError")

\* A required str field: present and a string.
ReqStr(d, key) ==
    IF key \in DOMAIN d /\ d[key].t = "str" THEN Ok(d[key].v) ELSE Invalid

\* The strings pydantic reads as booleans: it lower-cases the string and looks it up
\* among "1", "on", "t", "true", "y", "yes" and "0", "off", "f", "false", "n", "no".
\* The two sets hold every spelling that lower-cases to one of these.
TrueStrs ==
    {"1", "ON", "On", "oN", "on", "T", "t", "TRUE", "TRUe", "TRuE", "TRue", "TrUE",
     "TrUe", "TruE", "True", "tRUE", "tRUe", "tRuE", "tRue", "trUE", "trUe", "truE",
     "true", "Y", "y", "YES", "YEs", "YeS", "Yes", "yES", "yEs", "yeS", "yes"}

FalseStrs ==
    {"0", "OFF", "OFf", "OfF", "Off", "oFF", "oFf", "ofF", "off", "F", "f", "FALSE",
     "FALSe", "FALsE", "FALse", "FAlSE", "FAlSe", "FAlsE", "FAlse", "FaLSE", "FaLSe",
     "FaLsE", "FaLse", "FalSE", "FalSe", "FalsE", "False", "fALSE", "fALSe", "fALsE",
     "fALse", "fAlSE", "fAlSe", "fAlsE", "fAlse", "faLSE", "faLSe", "faLsE", "faLse",
     "falSE", "falSe", "falsE", "false", "N", "n", "NO", "No", "nO", "no"}

\* A value read as a bool (lax mode): a bool, the numbers 0 and 1, a string of TrueStrs
\* or of FalseStrs.
ToBool(j) ==
    IF j.t = "bool" THEN Ok(j.v)
    ELSE IF j.t = "num" /\ j.v \in {0, 1} THEN Ok(j.v = 1)
    ELSE IF j.t = "str" /\ (j.v \in TrueStrs \/ j.v \in FalseStrs) THEN Ok(j.v \in TrueStrs)
    ELSE Invalid

\* A value read as a float (lax mode): a number, a bool (1.0 and 0.0), a string that
\* parses as a float. A string offered to a number field is written as a price
\* string is, [num, v]: whether it parses, and the double it denotes.
ToFloat(j) ==
    IF j.t = "num" THEN Ok(j.v)
    ELSE IF j.t = "bool" THEN Ok(IF j.v THEN 1 ELSE 0)
    ELSE IF j.t = "str" /\ ~Float(j.v).exc THEN Float(j.v)
    ELSE Invalid

\* A string of a whole number in a spelling float() reads and int does not: an
\* exponent ("1e3"), a point with no digit after it ("5.").
FloatSpelled(x) == [num |-> TRUE, v |-> x, int |-> FALSE]

\* A value read as an int (lax mode): as a float, finite, and when a string, in a
\* spelling of an int (digits, or digits and ".0").
ToInt(j) ==
    IF /\ ~ToFloat(j).exc
       /\ ToFloat(j).val \notin NonFinite
       /\ ~(j.t = "str" /\ "int" \in DOMAIN j.v /\ ~j.v.int)
    THEN ToFloat(j) ELSE Invalid

\* A required bool field.
ReqBool(d, key) ==
    IF key \notin DOMAIN d THEN Invalid ELSE ToBool(d[key])

\* Optional[str] = None
OptStr(d, key) ==
    IF key \notin DOMAIN d \/ d[key].t = "null" THEN Ok(None)
    ELSE IF d[key].t = "str" THEN Ok(Some(d[key].v))
    ELSE Invalid

\* Optional[float] with a default for an absent key; an explicit null is None.
OptFloat(d, key, default) ==
    IF key \notin DOMAIN d THEN Ok(default)
    ELSE IF d[key].t = "null" THEN Ok(None)
    ELSE Then(ToFloat(d[key]), Some(ToFloat(d[key]).val))

\* Optional[int] = None
OptInt(d, key) ==
    IF key \notin DOMAIN d \/ d[key].t = "null" THEN Ok(None)
    ELSE Then(ToInt(d[key]), Some(ToInt(d[key]).val))

\* Optional[bool] = None
OptBool(d, key) ==
    IF key \notin DOMAIN d \/ d[key].t = "null" THEN Ok(None)
    ELSE Then(ToBool(d[key]), Some(ToBool(d[key]).val))

\* Optional[List[str]] = None
OptStrList(d, key) ==
    IF key \notin DOMAIN d \/ d[key].t = "null" THEN Ok(None)
    ELSE IF d[key].t = "list" /\ \A i \in 1..Len(d[key].v) : d[key].v[i].t = "str"
         THEN Ok(Some([i \in 1..Len(d[key].v) |-> d[key].v[i].v]))
    ELSE Invalid

\* float = Field(0): the default for an absent key, no null.
FloatOr(d, key, default) ==
    IF key \notin DOMAIN d THEN Ok(default) ELSE ToFloat(d[key])

\* TokenQuote
TokenQuote_validate(j) ==
    IF j.t # "dict" THEN Invalid
    ELSE LET token_id == ReqStr(j.v, "token_id")
             outcome == ReqStr(j.v, "outcome")
             price == OptFloat(j.v, "price", None)
             winner == OptBool(j.v, "winner")
         IN  IF token_id.exc \/ outcome.exc \/ price.exc \/ winner.exc THEN Invalid
             ELSE Ok([token_id |-> token_id.val, outcome |-> outcome.val,
                      price |-> price.val, winner |-> winner.val])

\* RewardRate
RewardRate_validate(j) ==
    IF j.t # "dict" THEN Invalid
    ELSE IF ReqStr(j.v, "asset_address").exc THEN Invalid
    ELSE IF "rewards_daily_rate" \notin DOMAIN j.v THEN Invalid
    ELSE IF ToFloat(j.v["rewards_daily_rate"]).exc THEN Invalid
    ELSE Ok([asset_address |-> j.v["asset_address"].v,
             rewards_daily_rate |-> ToFloat(j.v["rewards_daily_rate"]).val])

\* rates: Optional[Union[RewardRate, List[RewardRate]]] = None. One object is kept
\* as one RewardRate, a list as a list of them.
Rates_validate(d) ==
    IF "rates" \notin DOMAIN d \/ d["rates"].t = "null" THEN Ok(None)
    ELSE IF d["rates"].t = "dict"
         THEN Then(RewardRate_validate(d["rates"]),
                   Some(RewardRate_validate(d["rates"]).val))
    ELSE IF d["rates"].t = "list"
         THEN LET rs == d["rates"].v
              IN  IF \E i \in 1..Len(rs) : RewardRate_validate(rs[i]).exc THEN Invalid
                  ELSE Ok(Some([i \in 1..Len(rs) |-> RewardRate_validate(rs[i]).val]))
    ELSE Invalid

\* Rewards
Rewards_validate(j) ==
    IF j.t # "dict" THEN Invalid
    ELSE LET min_size == FloatOr(j.v, "min_size", 0)
             max_spread == FloatOr(j.v, "max_spread", 0)
             rates == Rates_validate(j.v)
         IN  IF min_size.exc \/ max_spread.exc \/ rates.exc THEN Invalid
             ELSE Ok([rates |-> rates.val, min_size |-> min_size.val,
                      max_spread |-> max_spread.val])

\* tokens: List[TokenQuote]
Tokens_validate(d) ==
    IF "tokens" \notin DOMAIN d \/ d["tokens"].t # "list" THEN Invalid
    ELSE LET toks == d["tokens"].v
         IN  IF \E i \in 1..Len(toks) : TokenQuote_validate(toks[i]).exc THEN Invalid
             ELSE Ok([i \in 1..Len(toks) |-> TokenQuote_validate(toks[i]).val])

\* rewards: Rewards, a field without a default.
RewardsField_validate(d) ==
    IF "rewards" \notin DOMAIN d THEN Invalid ELSE Rewards_validate(d["rewards"])

\* The optional fields of SimpleMarket that no helper of this model reads.
OptStrFields == {"accepting_order_timestamp", "question_id", "description", "market_slug",
                 "game_start_time", "fpmm", "neg_risk_market_id", "neg_risk_request_id",
                 "icon", "image"}
OptBoolFields == {"enable_order_book", "notifications_enabled", "neg_risk",
                  "is_50_50_outcome"}
OptFloatFields == {"maker_base_fee", "taker_base_fee", "minimum_order_size",
                   "minimum_tick_size"}
OptIntFields == {"seconds_delay"}
OptStrListFields == {"tags"}

\* Each of them is absent, null, or a value of its type.
OtherFieldsValid(d) ==
    \A k \in DOMAIN d :
        /\ k \in OptStrFields => ~OptStr(d, k).exc
        /\ k \in OptBoolFields => ~OptBool(d, k).exc
        /\ k \in OptFloatFields => ~OptFloat(d, k, None).exc
        /\ k \in OptIntFields => ~OptInt(d, k).exc
        /\ k \in OptStrListFields => ~OptStrList(d, k).exc

\* SimpleMarket.model_validate(m): every field of the schema is validated, and the
\* record holds the fields that the helpers of this model read; keys the schema does
\* not name are ignored.
SimpleMarket_validate(d) ==
    LET condition_id == ReqStr(d, "condition_id")
        active == ReqBool(d, "active")
        closed == ReqBool(d, "closed")
        archived == ReqBool(d, "archived")
        accepting_orders == ReqBool(d, "accepting_orders")
        question == OptStr(d, "question")
        end_date_iso == OptStr(d, "end_date_iso")
        liquidity == OptFloat(d, "liquidity", Some(DefaultLiquidity))
        rewards == RewardsField_validate(d)
        tokens == Tokens_validate(d)
    IN  IF \/ condition_id.exc \/ active.exc \/ closed.exc \/ archived.exc
           \/ accepting_orders.exc \/ question.exc \/ end_date_iso.exc
           \/ liquidity.exc \/ rewards.exc \/ tokens.exc \/ ~OtherFieldsValid(d)
        THEN Invalid
        ELSE Ok([condition_id |-> condition_id.val, active |-> active.val,
                 closed |-> closed.val, archived |-> archived.val,
                 accepting_orders |-> accepting_orders.val, question |-> question.val,
                 end_date_iso |-> end_date_iso.val, liquidity |-> liquidity.val,
                 rewards |-> rewards.val, tokens |-> tokens.val])

\* The computed fields.
outcomes(m) == [i \in 1..Len(m.tokens) |-> m.tokens[i].outcome]

\* [float(t.price) for t in self.tokens if t.price is not None]: null prices skipped.
PricesPresent(toks) ==
    LET RECURSIVE walk(_)
        walk(i) == IF i > Len(toks) THEN << >>
                   ELSE IF toks[i].price # None THEN << toks[i].price[1] >> \o walk(i + 1)
                   ELSE walk(i + 1)
    IN  walk(1)

outcome_prices_skipping(m) == PricesPresent(m.tokens)

outcome_prices(m) ==
    [i \in 1..Len(m.tokens) |->
        IF m.tokens[i].price # None THEN m.tokens[i].price[1] ELSE 0]

clob_token_ids(m) == [i \in 1..Len(m.tokens) |-> m.tokens[i].token_id]

-----------------------------------------------------------------------------
(* Liveness filter: client/polymarket.py. Time is counted in hours. A timestamp *)
(* string is [body, wall, sfx]: body "ts" is a well-formed date and time        *)
(* reading wall, body "junk" is text that is no timestamp, body "" is nothing;  *)
(* sfx is what follows: nothing, "Z", or a UTC offset.                          *)

DatetimeMax == 9999

EmptyStr == [body |-> "", wall |-> 0, sfx |-> ""]
Stamp(wall, sfx) == [body |-> "ts", wall |-> wall, sfx |-> sfx]
JunkStr == [body |-> "junk", wall |-> 0, sfx |-> ""]

OffsetHours == [x \in {"+00:00", "+01:00", "-01:00"} |->
                   IF x = "+01:00" THEN 1 ELSE IF x = "-01:00" THEN -1 ELSE 0]

\* datetime.fromisoformat(s) on the interpreter py: a datetime [aware, wall, off], or
\* ValueError. A trailing "Z" is read as UTC from Python 3.11 on and raises before.
fromisoformat(s, py) ==
    IF s.body # "ts" THEN Raise("Invalid isoformat string")
    ELSE IF s.sfx = "" THEN Ok([aware |-> FALSE, wall |-> s.wall, off |-> 0])
    ELSE IF s.sfx \in DOMAIN OffsetHours
         THEN Ok([aware |-> TRUE, wall |-> s.wall, off |-> OffsetHours[s.sfx]])
    ELSE IF s.sfx = "Z" /\ py \in Since["3.11"]
         THEN Ok([aware |-> TRUE, wall |-> s.wall, off |-> 0])
    ELSE Raise("Invalid isoformat string")

\* parse_iso8601(s), s an Optional[str]
parse_iso8601(s, py) ==
    IF s = None \/ s[1] = EmptyStr
    THEN Ok([aware |-> TRUE, wall |-> DatetimeMax, off |-> 0])
    ELSE IF s[1].sfx = "Z" THEN fromisoformat([s[1] EXCEPT !.sfx = "+00:00"], py)
    ELSE fromisoformat(s[1], py)

\* a >= b in the place of a > b.
DatetimeGE(a, utcnow) ==
    IF ~a.aware THEN Raise("can't compare offset-naive and offset-aware datetimes")
    ELSE Ok(a.wall - a.off >= utcnow)

\* a > b for a datetime a and the aware UTC time b: TypeError when a is naive.
DatetimeGT(a, utcnow) ==
    IF ~a.aware THEN Raise("can't compare offset-naive and offset-aware datetimes")
    ELSE Ok(a.wall - a.off > utcnow)

\* Polymarket.is_live(m) at the time utcnow on the interpreter py: "and" evaluates
\* left to right and stops at the first false operand.
is_live(m, utcnow, py) ==
    IF ~(m.active = TRUE /\ m.closed = FALSE /\ m.archived = FALSE
         /\ m.accepting_orders = TRUE)
    THEN Ok(FALSE)
    ELSE LET end == parse_iso8601(m.end_date_iso, py)
         IN  IF end.exc THEN end ELSE DatetimeGT(end.val, utcnow)

-----------------------------------------------------------------------------
(* Market listing: Polymarket.get_all_markets, client/polymarket.py *)

TokYes == [token_id |-> JS("101"), outcome |-> JS("Yes"), price |-> JN(45),
           winner |-> JB(FALSE)]
TokNo == [token_id |-> JS("102"), outcome |-> JS("No"), price |-> JN(55)]
TokNull == [token_id |-> JS("103"), outcome |-> JS("Maybe"), price |-> JNull]

\* A row with every field this model reads, and one the schema does not name.
FullRow(cid) ==
    [condition_id |-> JS(cid), active |-> JB(TRUE), closed |-> JB(FALSE),
     archived |-> JB(FALSE), accepting_orders |-> JB(TRUE),
     question |-> JS("Will it rain tomorrow?"),
     end_date_iso |-> JS(Stamp(2, "Z")), liquidity |-> JN(500),
     rewards |-> JO([min_size |-> JN(5), max_spread |-> JN(3), rates |-> JNull]),
     tokens |-> JL(<< JO(TokYes), JO(TokNo) >>), volume |-> JN(1000)]

\* A row whose values are not of the fields' types and are read as such: bools
\* spelled as words and as numbers, numbers spelled as strings and as bools.
LaxTok == [token_id |-> JS("104"), outcome |-> JS("Yes"),
           price |-> JS([num |-> TRUE, v |-> 5]), winner |-> JS("No")]

LaxRow(cid) ==
    [FullRow(cid) EXCEPT !.active = JS("TRUE"), !.closed = JN(0), !.archived = JS("Off"),
                         !.liquidity = JS([num |-> TRUE, v |-> 500]),
                         !.rewards =
                             JO([min_size |-> JB(TRUE), max_spread |-> JN(3),
                                 rates |-> JO([asset_address |-> JS("0xa"),
                                               rewards_daily_rate |-> JN(1)])]),
                         !.tokens = JL(<< JO(LaxTok), JO(TokNo) >>)]
    @@ [seconds_delay |-> JS([num |-> TRUE, v |-> 5])]

\* A row with the required fields only.
MinimalRow(cid) ==
    [condition_id |-> JS(cid), active |-> JB(TRUE), closed |-> JB(FALSE),
     archived |-> JB(FALSE), accepting_orders |-> JS("true"),
     rewards |-> JO(<< >>),
     tokens |-> JL(<< JO(TokNull), JO(TokYes), JO(TokNo) >>)]

Without(d, key) == [k \in DOMAIN d \ {key} |-> d[k]]

GatingFields == << "condition_id", "active", "closed", "archived", "accepting_orders",
                   "tokens" >>

\* The rows the upstream can send; a page names its rows by their place here.
RowCatalog ==
    << FullRow("c1"), MinimalRow("c2") >> \o
    [i \in 1..Len(GatingFields) |-> Without(FullRow("c3"), GatingFields[i])] \o
    << Without(FullRow("c9"), "rewards"),
       [FullRow("c10") EXCEPT !.active = JS("maybe")],
       LaxRow("c11"),
       FullRow("c12") @@ [seconds_delay |-> JS(FloatSpelled(1000))] >>

Payload(row) == RowCatalog[row]

\* SimpleMarket.model_validate of each row of the catalog.
Validated == [row \in 1..Len(RowCatalog) |-> SimpleMarket_validate(Payload(row))]

\* The for-loop that gives up at the first row that does not validate.
RECURSIVE ValidRowsUntilInvalid(_)
ValidRowsUntilInvalid(data) ==
    IF data = << >> THEN << >>
    ELSE LET v == Validated[Head(data)]
         IN  IF v.exc THEN << >> ELSE << v.val >> \o ValidRowsUntilInvalid(Tail(data))

\* for m in data: try: markets_out.append(SimpleMarket.model_validate(m))
\*                except ValidationError: continue
RECURSIVE ValidRows(_)
ValidRows(data) ==
    IF data = << >> THEN << >>
    ELSE LET v == Validated[Head(data)]
         IN  (IF v.exc THEN << >> ELSE << v.val >>) \o ValidRows(Tail(data))

\* resp.get("data", [])
PageData(resp) == IF resp.data = None THEN << >> ELSE resp.data[1]

\* The end-of-pages test without the sentinel: not cursor.
EndOfPagesNoSentinel(cur) == cur = None \/ cur[1] = ""

\* not cursor or cursor == "LTE="
EndOfPages(cur) == cur = None \/ cur[1] = "" \/ cur[1] = "LTE="

\* One pass of the while-loop with the end-of-pages test made before the rows are
\* read.
GetAllMarketsPassBreakFirst(out, resp) ==
    [markets_out |-> IF EndOfPages(resp.next_cursor) THEN out
                     ELSE out \o ValidRows(PageData(resp)),
     cursor |-> resp.next_cursor,
     done |-> EndOfPages(resp.next_cursor)]

\* One pass of the while-loop of get_all_markets over the response resp.
GetAllMarketsPass(out, resp) ==
    [markets_out |-> out \o ValidRows(PageData(resp)),
     cursor |-> resp.next_cursor,
     done |-> EndOfPages(resp.next_cursor)]

MaxPages == 3      \* responses the upstream serves
MaxRows == 2       \* rows in all the responses together

TerminalCursors == {None, Some(""), Some("LTE=")}

\* The ways to cut n rows into at most MaxPages pages: c[i] is the last row of page i.
Cuts(n) ==
    {c \in UNION {[1..k -> 0..n] : k \in 1..MaxPages} :
        /\ c[Len(c)] = n
        /\ \A i \in 1..Len(c) : i > 1 => c[i - 1] <= c[i]}

\* The pages of rows cut at cut: the last page has the cursor term, which ends the
\* listing, and an empty page comes with or without its "data" key.
PagesOf(rows, cut, term, nodata) ==
    [i \in 1..Len(cut) |->
        LET from == IF i = 1 THEN 1 ELSE cut[i - 1] + 1
            slice == [j \in 1..(cut[i] - from + 1) |-> rows[from + j - 1]]
        IN  [data |-> IF slice = << >> /\ nodata THEN None ELSE Some(slice),
             next_cursor |-> IF i = Len(cut) THEN term ELSE Some("MQ==")]]

InitMarkets ==
    /\ ServerIdle
    /\ \E rows \in SeqsUpTo(1..Len(RowCatalog), MaxRows), term \in TerminalCursors,
          nodata \in BOOLEAN :
          \E cut \in Cuts(Len(rows)) : pages = PagesOf(rows, cut, term, nodata)
    /\ gamma_run = NoGammaRun
    /\ chain = NoChain
    /\ fetched = 0
    /\ cursor = Some("")
    /\ markets_out = << >>
    /\ pc = "loop"
    /\ market = NoLiveRun.market /\ now = NoLiveRun.now /\ live = NoLiveRun.live

\* One pass of the while-loop: request the page at cursor, read its rows, and leave
\* the loop when the cursor it carries ends the listing.
FetchPage ==
    /\ pc = "loop"
    /\ fetched < Len(pages)
    /\ LET pass == GetAllMarketsPass(markets_out, pages[fetched + 1])
       IN  /\ markets_out' = pass.markets_out
           /\ cursor' = pass.cursor
           /\ pc' = IF pass.done THEN "done" ELSE "loop"
    /\ upstream' = Append(upstream, [api |-> "get_sampling_markets",
                                     args |-> [next_cursor |-> cursor]])
    /\ fetched' = fetched + 1
    /\ UNCHANGED <<config, handles, call, result, raised, gamma_run, chain, pages, market, now, live>>

NextMarkets == FetchPage

SpecMarkets == InitMarkets /\ [][NextMarkets]_vars

-----------------------------------------------------------------------------
(* Properties of the server *)

Invoked(tool) == call.tool = tool

\* C1: whatever tool was invoked, no Exception escaped to the caller, and when the
\* client call raised a failure, an Exception, the result mapping has an "error" key
\* whose text contains the failure's message.
C1_ErrorResult ==
    call.tool # "none" =>
        /\ result.exc => result.base
        /\ (raised # None /\ ~result.exc) =>
             /\ "error" \in DOMAIN result.val
             /\ Contains(result.val.error, raised[1])

C1_Witness ==
    /\ Invoked("redeem_position")
    /\ raised = Some("API Error")
    /\ Len(upstream) = 3
    /\ ~result.exc /\ result.val.error = << "Error redeeming position: ", "API Error" >>

\* The names of the fulfillment policies: the members of OrderType and the
\* documented "IOC".
PolicyNames == OrderTypeMembers \cup {"IOC"}

\* C2: place_market_order given a string that names no fulfillment policy hands
\* fill-or-kill to post_order, and what it hands over is always a member of the
\* policy enumeration.
C2_UnknownPolicyIsFOK ==
    (Invoked("place_market_order") /\ Len(upstream) = 2) =>
        /\ upstream[2].args.orderType \in OrderTypeMembers
        /\ call.args.order_type \notin PolicyNames => upstream[2].args.orderType = "FOK"

\* The book the upstream answered get_mid_price with.
BookFetched == Invoked("get_mid_price") /\ ~call.resp.exc

\* Every price of the side is a number: float() parses it and it is finite.
AllNumeric(side) == \A i \in 1..Len(side) : side[i].price \in FinitePrices

Perms(s) ==
    {[i \in 1..Len(s) |-> s[f[i]]] :
        f \in {g \in [1..Len(s) -> 1..Len(s)] : \A i, j \in 1..Len(s) : g[i] = g[j] => i = j}}

\* C7: for a book with a bid and an ask, all prices numbers, the mid price is a
\* multiple of 0.0001 nearest to (highest bid + lowest ask) / 2, and every
\* permutation of the bid levels and of the ask levels gives the same mid price.
C7_MidOfBestPrices ==
    (/\ BookFetched
     /\ call.resp.val.bids # << >> /\ call.resp.val.asks # << >>
     /\ AllNumeric(call.resp.val.bids) /\ AllNumeric(call.resp.val.asks)) =>
        LET ob == call.resp.val
            mid == result.val.mid_price
        IN  /\ ~result.exc /\ "error" \notin DOMAIN result.val
            /\ mid # None
            /\ \E i \in 1..Len(ob.bids), j \in 1..Len(ob.asks) :
                 /\ \A k \in 1..Len(ob.bids) : ob.bids[k].price.v <= ob.bids[i].price.v
                 /\ \A k \in 1..Len(ob.asks) : ob.asks[j].price.v <= ob.asks[k].price.v
                 /\ 20 * mid[1] - (ob.bids[i].price.v + ob.asks[j].price.v) \in -10..10
            /\ \A pb \in Perms(ob.bids), pa \in Perms(ob.asks) :
                 CLOB_get_mid_from_book(Ok([bids |-> pb, asks |-> pa]), call.args.tie_up)
                     = Ok(mid)

\* bids 0.00000, 0.00005 and asks 0.00015, 0.00010: best bid is the second level,
\* best ask the second, (0.00005 + 0.00010) / 2 = 0.000075 rounds to 0.0001.
C7_Witness ==
    /\ BookFetched
    /\ Len(call.resp.val.bids) = 2 /\ Len(call.resp.val.asks) = 2
    /\ AllNumeric(call.resp.val.bids) /\ AllNumeric(call.resp.val.asks)
    /\ call.resp.val.bids[1].price.v = 0 /\ call.resp.val.bids[2].price.v = 5
    /\ call.resp.val.asks[1].price.v = 15 /\ call.resp.val.asks[2].price.v = 10
    /\ result.val.mid_price = Some(1)

\* C8: a fetched book with an empty bid side or an empty ask side gives None from
\* get_mid_from_book, and the tool's result has mid_price None and no error key.
C8_EmptySideIsNone ==
    (BookFetched /\ (call.resp.val.bids = << >> \/ call.resp.val.asks = << >>)) =>
        /\ CLOB_get_mid_from_book(call.resp, call.args.tie_up) = Ok(None)
        /\ raised = None
        /\ result = Ok([token_id |-> call.args.token_id, mid_price |-> None])

C8_Witness ==
    /\ BookFetched
    /\ call.resp.val.bids = << >>
    /\ Len(call.resp.val.asks) = 1 /\ call.resp.val.asks[1].price.num
    /\ call.resp.val.asks[1].price.v = 10
    /\ result.val.mid_price = None

EmptyBook == [bids |-> << >>, asks |-> << >>]

\* A level of the side carries a price that float() does not parse.
HasUnparsed(side) == \E i \in 1..Len(side) : ~side[i].price.num

\* C9: a fetched book with a price that is no number gives None, raises nothing, and
\* the tool's result is the very result it gives for a book with an empty side.
C9_BadPriceIsNone ==
    (BookFetched /\ (HasUnparsed(call.resp.val.bids) \/ HasUnparsed(call.resp.val.asks))) =>
        /\ CLOB_get_mid_from_book(call.resp, call.args.tie_up) = Ok(None)
        /\ raised = None
        /\ result = get_mid_price(call.args.token_id, Ok(EmptyBook), call.args.tie_up).out
        /\ result.val.mid_price = None /\ "error" \notin DOMAIN result.val

C9_Witness ==
    /\ BookFetched
    /\ Len(call.resp.val.bids) = 1 /\ call.resp.val.bids[1].price.num
    /\ Len(call.resp.val.asks) = 2
    /\ call.resp.val.asks[1].price.num /\ ~call.resp.val.asks[2].price.num
    /\ result.val.mid_price = None

-----------------------------------------------------------------------------
(* Properties of get_all_markets and of the normalized records *)

\* The rows of the first n pages, in page order.
RECURSIVE RowsOfPages(_, _)
RowsOfPages(ps, n) ==
    IF n = 0 THEN << >> ELSE RowsOfPages(ps, n - 1) \o PageData(ps[n])

Validates(row) == ~Validated[row].exc

\* The records of the rows of a sequence that validate, in order.
Normalized(rows) ==
    LET good == SelectSeq(rows, Validates)
    IN  [i \in 1..Len(good) |-> SimpleMarket_validate(Payload(good[i])).val]

Occurrences(seq, x) == Cardinality({i \in 1..Len(seq) : seq[i] = x})

\* The row lacks one of condition_id, active, closed, archived, accepting_orders,
\* tokens.
LacksGating(row) == \E i \in 1..Len(GatingFields) : GatingFields[i] \notin DOMAIN Payload(row)

\* C3: when get_all_markets has returned, no row that lacks one of the six fields
\* was normalized, and each row that validates is in the result as many times as
\* the upstream sent it, whatever rows came with it: the result holds nothing else.
C3_BadRowsSkipped ==
    pc = "done" =>
        LET sent == RowsOfPages(pages, Len(pages))
        IN  /\ \A i \in 1..Len(sent) : LacksGating(sent[i]) => ~Validates(sent[i])
            /\ \A i \in 1..Len(sent) :
                 Validates(sent[i]) =>
                    Occurrences(markets_out, SimpleMarket_validate(Payload(sent[i])).val)
                        = Occurrences(sent, sent[i])
            /\ Len(markets_out) = Cardinality({i \in 1..Len(sent) : Validates(sent[i])})

\* A page whose first row lacks "active" and whose second row is whole.
C3_Witness ==
    /\ pc = "done"
    /\ Len(pages) = 1
    /\ PageData(pages[1]) = << 4, 1 >>
    /\ "active" \notin DOMAIN Payload(4)
    /\ Len(markets_out) = 1 /\ markets_out[1].condition_id = "c1"

\* The six fields are present and correctly typed.
GatingPresent(d) ==
    /\ ~ReqStr(d, "condition_id").exc
    /\ ~ReqBool(d, "active").exc /\ ~ReqBool(d, "closed").exc
    /\ ~ReqBool(d, "archived").exc /\ ~ReqBool(d, "accepting_orders").exc
    /\ ~Tokens_validate(d).exc

\* C4: a row whose six required fields are present and correctly typed is normalized
\* and kept in the result of get_all_markets whatever else it lacks, with liquidity
\* 10000.0 when it carries none.
C4_OnlyGatingRequired ==
    pc = "done" =>
        LET sent == RowsOfPages(pages, Len(pages))
        IN  \A i \in 1..Len(sent) :
                GatingPresent(Payload(sent[i])) =>
                    \E k \in 1..Len(markets_out) :
                        /\ markets_out[k].condition_id = Payload(sent[i]).condition_id.v
                        /\ "liquidity" \notin DOMAIN Payload(sent[i]) =>
                               markets_out[k].liquidity = Some(DefaultLiquidity)

\* The row of the catalog a record was normalized from.
RowOf(m) ==
    CHOOSE c \in 1..Len(RowCatalog) :
        "condition_id" \in DOMAIN Payload(c) /\ Payload(c).condition_id.v = m.condition_id

\* The number a row's value stands for: the number itself, the number a string
\* spells, 1 and 0 for true and false.
Denoted(j) ==
    CASE j.t = "num" -> j.v
      [] j.t = "str" -> j.v.v
      [] j.t = "bool" -> IF j.v THEN 1 ELSE 0

\* C5: for every normalized record, outcomes, outcome_prices and clob_token_ids are
\* as long as tokens, and their i-th elements are the i-th token's outcome, its price
\* (0.0 for a null or absent price) and its token id, as the upstream row gave them.
C5_ComputedFields ==
    \A k \in 1..Len(markets_out) :
        LET m == markets_out[k]
            raw == Payload(RowOf(m)).tokens.v
        IN  /\ Len(m.tokens) = Len(raw)
            /\ Len(outcomes(m)) = Len(m.tokens)
            /\ Len(outcome_prices(m)) = Len(m.tokens)
            /\ Len(clob_token_ids(m)) = Len(m.tokens)
            /\ \A i \in 1..Len(raw) :
                 /\ outcomes(m)[i] = m.tokens[i].outcome
                 /\ outcomes(m)[i] = raw[i].v.outcome.v
                 /\ clob_token_ids(m)[i] = m.tokens[i].token_id
                 /\ clob_token_ids(m)[i] = raw[i].v.token_id.v
                 /\ outcome_prices(m)[i] =
                        IF "price" \in DOMAIN raw[i].v /\ raw[i].v.price.t # "null"
                        THEN Denoted(raw[i].v.price) ELSE 0

\* The record of the row whose first token has a null price.
C5_Witness ==
    /\ Len(markets_out) = 1
    /\ markets_out[1].condition_id = "c2"
    /\ markets_out[1].tokens[1].price = None
    /\ outcome_prices(markets_out[1]) = << 0, 45, 55 >>
    /\ outcomes(markets_out[1]) = << "Maybe", "Yes", "No" >>

\* C10: when get_all_markets has returned after a page that ends the listing, it has
\* requested every page, and its result is the records of the valid rows of all the
\* pages, the last one included, each once, in page order and in the order of the
\* rows within each page.
C10_AllPagesInOrder ==
    pc = "done" =>
        /\ fetched = Len(pages)
        /\ EndOfPages(pages[fetched].next_cursor)
        /\ markets_out = Normalized(RowsOfPages(pages, Len(pages)))

\* Two pages and then the page with the end sentinel, which carries a row itself.
C10_Witness ==
    /\ pc = "done"
    /\ Len(pages) = 3 /\ fetched = 3
    /\ PageData(pages[1]) = << 2 >> /\ PageData(pages[2]) = << >>
    /\ PageData(pages[3]) = << 1 >>
    /\ pages[3].next_cursor = Some("LTE=")
    /\ Len(markets_out) = 2
    /\ markets_out[1].condition_id = "c2" /\ markets_out[2].condition_id = "c1"

-----------------------------------------------------------------------------
(* is_live applied to a normalized record at a time *)

MaxNow == 3        \* the current time ranges over 0..MaxNow
MaxWall == 3       \* the wall-clock reading of a timestamp ranges over 0..MaxWall

\* The end_date_iso of a row: no key, null, or a string.
EndDates ==
    {JNull, JS(EmptyStr), JS(JunkStr)} \cup
    {JS(Stamp(w, x)) : w \in 0..MaxWall, x \in {"Z", "+00:00", "+01:00", "-01:00", ""}}

LiveRow(a, c, r, o, e, keyed) ==
    LET d == [FullRow("c1") EXCEPT !.active = JB(a), !.closed = JB(c),
                                   !.archived = JB(r), !.accepting_orders = JB(o),
                                   !.end_date_iso = e]
    IN  IF keyed THEN d ELSE Without(d, "end_date_iso")

InitLive ==
    /\ ServerIdle
    /\ OtherIdle
    /\ \E a \in BOOLEAN, c \in BOOLEAN, r \in BOOLEAN, o \in BOOLEAN, e \in EndDates,
          keyed \in BOOLEAN :
          market = SimpleMarket_validate(LiveRow(a, c, r, o, e, keyed)).val
    /\ now \in 0..MaxNow
    /\ live = None

\* is_live(market) is called at the time now.
EvalIsLive ==
    /\ live = None
    /\ \E py \in Interpreters : live' = Some(is_live(market, now, py))
    /\ UNCHANGED <<config, handles, call, result, raised, upstream, gamma_run, chain, pages, fetched,
                   cursor,
                   markets_out, pc, market, now>>

NextLive == EvalIsLive

SpecLive == InitLive /\ [][NextLive]_vars

GatesOpen ==
    /\ market.active /\ ~market.closed /\ ~market.archived /\ market.accepting_orders

\* The end date names an instant: it is absent or empty (later than every time), or a
\* well-formed timestamp ending in Z or in a UTC offset.
EndIsInstant ==
    \/ market.end_date_iso = None
    \/ market.end_date_iso[1] = EmptyStr
    \/ /\ market.end_date_iso[1].body = "ts"
       /\ market.end_date_iso[1].sfx \in {"Z", "+00:00", "+01:00", "-01:00"}

\* That instant is strictly later than now.
EndIsLater ==
    \/ market.end_date_iso = None
    \/ market.end_date_iso[1] = EmptyStr
    \/ /\ market.end_date_iso[1].body = "ts"
       /\ \/ market.end_date_iso[1].sfx \in {"Z", "+00:00"}
             /\ market.end_date_iso[1].wall > now
          \/ market.end_date_iso[1].sfx = "+01:00"
             /\ market.end_date_iso[1].wall - 1 > now
          \/ market.end_date_iso[1].sfx = "-01:00"
             /\ market.end_date_iso[1].wall + 1 > now

\* C6: is_live returns true exactly when the four gating booleans are favourable and
\* the end date names an instant strictly later than now (absent or empty: later than
\* every time; a trailing Z: UTC); when the end date names an instant and a gate is
\* flipped or the instant is not later than now, it returns false.
C6_LiveIffGatesAndFuture ==
    live # None =>
        /\ (~live[1].exc /\ live[1].val = TRUE) <=> (GatesOpen /\ EndIsInstant /\ EndIsLater)
        /\ EndIsInstant => (~live[1].exc /\ live[1].val = (GatesOpen /\ EndIsLater))

\* The end date 02:00+01:00 is 01:00 UTC: at now = 1 it is not strictly later.
C6_Witness ==
    /\ live # None
    /\ GatesOpen
    /\ market.end_date_iso = Some(Stamp(2, "+01:00"))
    /\ now = 1
    /\ live[1] = Ok(FALSE)

-----------------------------------------------------------------------------
(* get_all_markets against an upstream free in the cursors it returns *)

Cursors == TerminalCursors \cup {Some("MQ=="), Some("Mg==")}

\* A response of get_sampling_markets: any cursor, with a row or without "data".
CursorPages == {[data |-> d, next_cursor |-> c] : d \in {None, Some(<< 1 >>)}, c \in Cursors}

\* The upstream has up to MaxPages responses to give, one per request, and gives
\* nothing after them; a response that ends the listing may come anywhere among
\* them, or not at all.
InitPaging ==
    /\ ServerIdle
    /\ pages \in SeqsUpTo(CursorPages, MaxPages) \ {<< >>}
    /\ gamma_run = NoGammaRun
    /\ chain = NoChain
    /\ fetched = 0
    /\ cursor = Some("")
    /\ markets_out = << >>
    /\ pc = "loop"
    /\ market = NoLiveRun.market /\ now = NoLiveRun.now /\ live = NoLiveRun.live

\* The while-loop makes its next request whenever the upstream answers.
SpecPaging == InitPaging /\ [][NextMarkets]_vars /\ WF_vars(FetchPage)

\* The cursor is absent, empty or "LTE=".
Ends(c) == c = None \/ c = Some("") \/ c = Some("LTE=")

\* Some response of the upstream ends the listing.
UpstreamEnds == \E i \in 1..Len(pages) : Ends(pages[i].next_cursor)

CursorsInStep ==
    /\ Len(upstream) = fetched
    /\ \A i \in 1..fetched :
         /\ upstream[i].api = "get_sampling_markets"
         /\ upstream[i].args.next_cursor =
                IF i = 1 THEN Some("") ELSE pages[i - 1].next_cursor
         /\ i < fetched => ~Ends(pages[i].next_cursor)
    /\ pc = "done" <=> (fetched > 0 /\ Ends(pages[fetched].next_cursor))

\* C11: the first request of get_all_markets carries the empty cursor and each later
\* one the cursor of the response before it; no request follows a response whose
\* cursor is absent, empty or "LTE=", and the call has returned exactly when the last
\* response it read was such a one; it returns when the upstream has such a response
\* to give, and otherwise goes on asking through every response the upstream gives.
C11_CursorProtocol ==
    /\ [] CursorsInStep
    /\ [] (UpstreamEnds => <> (pc = "done"))
    /\ [] (~UpstreamEnds => <> (pc = "loop" /\ fetched = Len(pages)))

\* The second of three responses carries "LTE=": the second request carried the
\* first response's cursor, and the third response was never asked for.
C11_Witness ==
    /\ pc = "done"
    /\ Len(pages) = 3 /\ fetched = 2
    /\ pages[1].next_cursor = Some("Mg==")
    /\ pages[2].next_cursor = Some("LTE=")
    /\ upstream[1].args.next_cursor = Some("")
    /\ upstream[2].args.next_cursor = Some("Mg==")

-----------------------------------------------------------------------------
(* Properties of the tools, continued *)

\* C12: get_market sends the metadata service one request for the markets whose slug
\* is the given one, and when the service answers with a list of rows the result
\* holds that list and its length as count, and no error.
C12_MarketBySlug ==
    Invoked("get_market") =>
        /\ upstream = << [api |-> "GET /markets", args |-> [slug |-> call.args.slug]] >>
        /\ (~call.resp.exc /\ call.resp.val.t = "list") =>
               /\ "error" \notin DOMAIN result.val
               /\ result.val.markets = call.resp.val
               /\ result.val.count = Len(call.resp.val.v)

LowerOf == [c \in {"R", "A", "I", "N", "S"} |->
               CASE c = "R" -> "r" [] c = "A" -> "a" [] c = "I" -> "i"
                 [] c = "N" -> "n" [] c = "S" -> "s"]

Lower(s) == [i \in 1..Len(s) |-> IF s[i] \in DOMAIN LowerOf THEN LowerOf[s[i]] ELSE s[i]]

IsSubstr(q, s) == \E k \in 0..(Len(s) - Len(q)) : \A i \in 1..Len(q) : s[k + i] = q[i]

\* The record's question is present and contains the query, letter case aside.
Matches(rec, query) ==
    rec.question # None /\ IsSubstr(Lower(query), Lower(rec.question[1]))

FirstN(s, limit) ==
    IF limit = None \/ limit[1] >= Len(s) THEN s ELSE SubSeq(s, 1, limit[1])

\* C13: search_markets is a tool of the server, and its result holds, in the order
\* the records came, exactly the records whose question contains the query text
\* compared case-insensitively (none with an absent question), cut to the first
\* limit of them when a limit is given.
C13_SearchMarkets ==
    Invoked("search_markets") =>
        /\ "search_markets" \in ToolNames
        /\ "error" \notin DOMAIN result.val
        /\ result.val.markets =
               FirstN(SelectSeq(call.resp.val, LAMBDA r : Matches(r, call.args.query)),
                      call.args.limit)

DataTools == {"get_positions", "get_closed_positions", "get_trades", "get_portfolio_value"}

\* The query parameters the caller of the tool supplied besides the user.
SuppliedParams ==
    IF "limit" \in DOMAIN call.args /\ call.args.limit # None
    THEN [limit |-> call.args.limit[1]] ELSE << >>

\* The data client's method behind the invoked tool, applied to the tool's arguments.
DataCallOf(tool) ==
    CASE tool = "get_positions" ->
             Data_get_positions(call.args.user, SuppliedParams, call.resp)
      [] tool = "get_closed_positions" ->
             Data_get_closed_positions(call.args.user, SuppliedParams, call.resp)
      [] tool = "get_trades" ->
             Data_get_trades(call.args.user, SuppliedParams, call.resp)
      [] tool = "get_portfolio_value" ->
             Data_get_portfolio_value(call.args.user, call.resp)

\* C14: each of get_positions, get_closed_positions, get_trades and
\* get_portfolio_value sends the data service one request whose user parameter is the
\* given address, or the configured address when none is given; the other parameters
\* of the request are exactly the ones the caller supplied, with their values, and
\* the caller's mapping is after the call what it was before.
C14_UserParam ==
    call.tool \in DataTools =>
        /\ Len(upstream) = 1
        /\ upstream[1].args.user =
               IF call.args.user = None THEN ConfigAddress ELSE call.args.user[1]
        /\ DOMAIN upstream[1].args = {"user"} \cup DOMAIN SuppliedParams
        /\ \A k \in DOMAIN SuppliedParams : upstream[1].args[k] = SuppliedParams[k]
        /\ DataCallOf(call.tool).caller_params = SuppliedParams
        /\ "user" \notin DOMAIN DataCallOf(call.tool).caller_params

\* get_trades with limit 2 and no wallet address: the request names the configured
\* address and carries the limit.
C14_Witness ==
    /\ Invoked("get_trades")
    /\ call.args.user = None /\ call.args.limit = Some(2)
    /\ upstream = << [api |-> "GET /trades", args |-> [user |-> ConfigAddress, limit |-> 2]] >>

-----------------------------------------------------------------------------
(* Startup: the import of server.py builds the three clients, then main.py *)
(* serves the tools.                                                       *)

\* PRIVATE_KEY in the environment: absent, empty, a usable key, or text that is no
\* key.
PrivateKeys == {None, Some(""), Some("0xkey"), Some("zz")}

NoHandles == [data |-> FALSE, gamma |-> FALSE, clob |-> FALSE]

\* The key test that lets an empty key through: self.private_key is None.
MissingKeyNoneOnly(key) == key = None

\* not self.private_key
MissingKey(key) == key = None \/ key = Some("")

\* w3.eth.account.from_key(self.private_key).address
FromKey(key) == IF key = Some("0xkey") THEN Ok(ConfigAddress) ELSE Raise("invalid private key")

\* A constructor raised: the import of server.py fails and nothing is served.
StartupFails(msg) ==
    /\ raised' = Some(msg)
    /\ pc' = "failed"
    /\ UNCHANGED <<config, handles, upstream>>

InitStartup ==
    /\ config \in {[private_key |-> k, address |-> None] : k \in PrivateKeys}
    /\ handles = NoHandles
    /\ call = [tool |-> "none"]
    /\ result = Ok(<< >>)
    /\ raised = None
    /\ upstream = << >>
    /\ gamma_run = NoGammaRun
    /\ chain = NoChain
    /\ pages = NoMarketsRun.pages /\ fetched = NoMarketsRun.fetched
    /\ cursor = NoMarketsRun.cursor /\ markets_out = NoMarketsRun.markets_out
    /\ pc = "data"
    /\ market = NoLiveRun.market /\ now = NoLiveRun.now /\ live = NoLiveRun.live

\* data = DataClient()
BuildDataClient ==
    /\ pc = "data"
    /\ IF MissingKey(config.private_key) THEN StartupFails("Missing PRIVATE_KEY in env")
       ELSE IF FromKey(config.private_key).exc
            THEN StartupFails(FromKey(config.private_key).msg)
       ELSE /\ config' = [config EXCEPT !.address = Some(FromKey(config.private_key).val)]
            /\ handles' = [handles EXCEPT !.data = TRUE]
            /\ pc' = "gamma"
            /\ UNCHANGED <<raised, upstream>>
    /\ UNCHANGED <<call, result, gamma_run, chain, pages, fetched, cursor, markets_out, market, now,
                   live>>

\* gamma = GammaClient()
BuildGammaClient ==
    /\ pc = "gamma"
    /\ handles' = [handles EXCEPT !.gamma = TRUE]
    /\ pc' = "clob"
    /\ UNCHANGED <<config, call, result, raised, upstream, gamma_run, chain, pages, fetched, cursor,
                   markets_out, market, now, live>>

\* clob = CLOBClient(): the key is tested again, then _init_client takes the API
\* credentials from the environment or derives them with a request to the venue.
BuildCLOBClient ==
    /\ pc = "clob"
    /\ \E has_creds \in BOOLEAN, derived \in Resp({"creds"}) :
         IF MissingKey(config.private_key) THEN StartupFails("Missing PRIVATE_KEY in env")
         ELSE IF FromKey(config.private_key).exc
              THEN StartupFails(FromKey(config.private_key).msg)
         ELSE IF has_creds
              THEN /\ handles' = [handles EXCEPT !.clob = TRUE]
                   /\ pc' = "idle"
                   /\ UNCHANGED <<config, raised, upstream>>
         ELSE /\ upstream' = Append(upstream, [api |-> "create_or_derive_api_creds",
                                               args |-> << >>])
              /\ IF derived.exc
                 THEN /\ raised' = Some(derived.msg)
                      /\ pc' = "failed"
                      /\ UNCHANGED <<config, handles>>
                 ELSE /\ handles' = [handles EXCEPT !.clob = TRUE]
                      /\ pc' = "idle"
                      /\ UNCHANGED <<config, raised>>
    /\ UNCHANGED <<call, result, gamma_run, chain, pages, fetched, cursor, markets_out, market, now,
                   live>>

\* mcp.run serves the tools once the import of server.py has succeeded.
Serve == pc = "idle" /\ Next

NextStartup ==
    \/ BuildDataClient
    \/ BuildGammaClient
    \/ BuildCLOBClient
    \/ Serve

SpecStartup == InitStartup /\ [][NextStartup]_vars

\* C15: with PRIVATE_KEY absent or empty, the startup does nothing but fail with
\* "Missing PRIVATE_KEY in env": no client is built, no request is sent (no API
\* credentials are derived), and no tool is ever invoked.
C15_NoKeyNoStart ==
    (config.private_key = None \/ config.private_key = Some("")) =>
        /\ handles = NoHandles
        /\ config.address = None
        /\ upstream = << >>
        /\ call.tool = "none"
        /\ pc \in {"data", "failed"}
        /\ pc = "failed" => raised = Some("Missing PRIVATE_KEY in env")

\* The startup with an empty PRIVATE_KEY has failed.
C15_Witness ==
    /\ config.private_key = Some("")
    /\ pc = "failed"
    /\ raised = Some("Missing PRIVATE_KEY in env")
    /\ handles = NoHandles

-----------------------------------------------------------------------------
(* Properties of the order tools and of the server's state *)

OrderTools == {"place_limit_order", "place_market_order", "cancel_order"}

\* The requests that post or cancel an order at the venue.
PostingApis == {"create_and_post_order", "post_order", "cancel"}

\* C16: an invocation of place_limit_order, place_market_order or cancel_order sends
\* at most one posting or cancel request and nothing after it; when a request of
\* the invocation failed, that request was its last and the result is an error
\* result (no Exception leaves the handler); and once the invocation is answered
\* the server holds nothing of it.
C16_OneRequestNoRetry ==
    /\ call.tool \in OrderTools =>
        /\ Cardinality({i \in 1..Len(upstream) : upstream[i].api \in PostingApis}) <= 1
        /\ \A i \in 1..Len(upstream) : upstream[i].api \in PostingApis => i = Len(upstream)
        /\ Len(upstream) <= 2
        /\ raised # None =>
             /\ result.exc => result.base
             /\ ~result.exc => DOMAIN result.val = {"error"}
             /\ Len(upstream) = IF call.tool = "place_market_order" /\ ~call.resp[1].exc
                                THEN 2 ELSE 1
    /\ call.tool = "none" => (result = Ok(<< >>) /\ raised = None /\ upstream = << >>)

\* The venue refused a cancel: one request, an error result.
C16_Witness ==
    /\ Invoked("cancel_order")
    /\ call.args.order_id = "unknown"
    /\ call.resp = Raise("API Error")
    /\ upstream = << [api |-> "cancel", args |-> [order_id |-> "unknown"]] >>
    /\ result = Ok([error |-> << "Error cancelling order: ", "API Error" >>])

\* C17: place_limit_order sends one create_and_post_order request whose token_id,
\* price, size and side are the ones it received, whatever the price and the size
\* (zero, negative, above one), and when the venue accepts the order the result is
\* those four values and the venue's order id.
C17_LimitOrderAsReceived ==
    Invoked("place_limit_order") =>
        /\ upstream = << [api |-> "create_and_post_order",
                          args |-> [token_id |-> call.args.token_id,
                                    price |-> call.args.price,
                                    size |-> call.args.size,
                                    side |-> call.args.side]] >>
        /\ ~call.resp.exc =>
               result = Ok([order_id |-> call.resp.val,
                            token_id |-> call.args.token_id,
                            price |-> call.args.price,
                            size |-> call.args.size,
                            side |-> call.args.side])

\* A SELL order at a negative price for a size of zero, accepted by the venue.
C17_Witness ==
    /\ Invoked("place_limit_order")
    /\ call.args.price = -5 /\ call.args.size = 0 /\ call.args.side = "SELL"
    /\ upstream[1].args.price = -5 /\ upstream[1].args.size = 0
    /\ result.val.order_id = "order_123"
    /\ result.val.price = -5 /\ result.val.size = 0

\* C18: from the started server on, through every sequence of tool invocations and
\* answers, the three client handles, the configured address and the signing key
\* are what they were at the start: no step changes them.
C18_NoProcessStateChange ==
    /\ [] (config = Configured /\ handles = [data |-> TRUE, gamma |-> TRUE, clob |-> TRUE])
    /\ [][config' = config /\ handles' = handles]_vars

\* A market order whose posting the venue refused: the handles and the
\* configuration are untouched.
C18_Witness ==
    /\ Invoked("place_market_order")
    /\ raised = Some("API Error")
    /\ Len(upstream) = 2
    /\ handles = [data |-> TRUE, gamma |-> TRUE, clob |-> TRUE]
    /\ config.address = Some(ConfigAddress) /\ config.private_key = Some("0xkey")

\* The positions in upstream of the requests that submit a transaction.
Submissions == {i \in 1..Len(upstream) : upstream[i].api = "send_raw_transaction"}

\* C19: an invocation of redeem_position submits at most one transaction and sends
\* nothing after the submission (no wait for a receipt, no second submission); when
\* the condition id is no hex text or the address, the nonce, the gas price, the
\* building, the gas estimate or the signing fails, nothing is submitted and the
\* result is an error result (no Exception leaves the handler); when the submission
\* returns a hash, the result carries that hash whatever becomes of the transaction
\* on the chain.
C19_RedeemOnce ==
    Invoked("redeem_position") =>
        LET rpc == call.resp.rpc
            prepared == /\ call.args.condition_id = "0xb4fa"
                        /\ ~rpc.checksum.exc /\ ~rpc.count.exc /\ ~rpc.gas_price.exc
                        /\ ~rpc.build.exc /\ ~rpc.estimate.exc /\ ~rpc.sign.exc
        IN  /\ Cardinality(Submissions) <= 1
            /\ \A i \in Submissions : i = Len(upstream)
            /\ result.exc => result.base
            /\ ~prepared => (Submissions = {} /\ (result.exc \/ DOMAIN result.val = {"error"}))
            /\ prepared => Cardinality(Submissions) = 1
            /\ (prepared /\ rpc.send.exc /\ ~result.exc) => DOMAIN result.val = {"error"}
            /\ (prepared /\ ~rpc.send.exc) =>
                   result = Ok([condition_id |-> call.args.condition_id,
                                index_sets |-> call.args.index_sets,
                                tx_hash |-> rpc.send.val])

\* The transaction was submitted and later reverted on the chain: the result is its
\* hash.
C19_Witness ==
    /\ Invoked("redeem_position")
    /\ call.resp.onchain = "reverted"
    /\ Len(upstream) = 4 /\ upstream[4].api = "send_raw_transaction"
    /\ result.val.tx_hash = "0xhash"

-----------------------------------------------------------------------------
(* The tools of a server whose module globals data, gamma, clob have been   *)
(* replaced by None, as the tests do with patch(..., None).                 *)

InitPatched ==
    /\ config = Configured
    /\ handles \in [{"data", "gamma", "clob"} -> BOOLEAN]
    /\ call = [tool |-> "none"]
    /\ result = Ok(<< >>)
    /\ raised = None
    /\ upstream = << >>
    /\ OtherIdle
    /\ market = NoLiveRun.market /\ now = NoLiveRun.now /\ live = NoLiveRun.live

\* The books of at most one level a side.
OneLevelBooks == {b \in Books : Len(b.bids) <= 1 /\ Len(b.asks) <= 1}

NextPatched ==
    \/ GetMarket
    \/ GetMarkets
    \/ GetOrderBookOf(OneLevelBooks)
    \/ GetMidPriceOf(OneLevelBooks)
    \/ GetPrice
    \/ PlaceLimitOrder
    \/ PlaceMarketOrder
    \/ CancelOrder
    \/ GetUsdcBalance
    \/ GetPortfolioValue
    \/ GetPositions
    \/ GetClosedPositions
    \/ GetTrades
    \/ RedeemPosition
    \/ Respond

SpecPatched == InitPatched /\ [][NextPatched]_vars

\* The module globals whose methods or attributes the tool's body uses.
UsedHandles(tool) ==
    CASE tool \in {"get_market", "get_markets"} -> {"gamma"}
      [] tool \in {"get_order_book", "get_mid_price", "get_price", "place_limit_order",
                   "place_market_order", "cancel_order"} -> {"clob"}
      [] tool = "get_usdc_balance" -> {"data", "clob"}
      [] tool \in {"get_portfolio_value", "get_positions", "get_closed_positions",
                   "get_trades", "redeem_position"} -> {"data"}

\* C20: when a client handle that the invoked tool uses is not initialized, the
\* result is an error result whose text contains "not initialized", and no request
\* was sent upstream.
C20_NotInitialized ==
    (call.tool \in ToolNames /\ \E h \in UsedHandles(call.tool) : ~handles[h]) =>
        /\ ~result.exc
        /\ "error" \in DOMAIN result.val
        /\ Contains(result.val.error, " client not initialized")
        /\ upstream = << >>

-----------------------------------------------------------------------------
(* Properties of the documented order policies, of the Gamma listing, of the *)
(* liveness filter, of the balance and of the redemptions                    *)

\* The order types the docstring of place_market_order names.
DocumentedPolicies == {"FOK", "IOC", "GTC"}

\* C21: place_market_order given "FOK", "IOC" or "GTC" posts the order with that
\* same policy: a documented policy is never replaced by the FOK default.
C21_DocumentedPolicyKept ==
    (/\ Invoked("place_market_order")
     /\ call.args.order_type \in DocumentedPolicies
     /\ Len(upstream) = 2) =>
        /\ upstream[2].api = "post_order"
        /\ upstream[2].args.orderType = call.args.order_type

-----------------------------------------------------------------------------
(* get_markets without a limit: the loop of get_all_current_markets, one   *)
(* request at a time                                                       *)

MaxGammaPages == 3      \* responses the Gamma service gives to one listing

\* Pages as full as the limit asks for, and one that holds a row more.
FullPages ==
    {JList([i \in 1..GammaDefaultLimit |-> IF i % 2 = 1 THEN "m1" ELSE "m2"]),
     JList([i \in 1..GammaDefaultLimit |-> "m2"]),
     JList([i \in 1..(GammaDefaultLimit + 1) |-> "m1"])}

\* not (len(market_batch) < limit): the loop asks for the next page.
IsFullPage(r) ==
    ~r.exc /\ r.val.t \in {"list", "dict"} /\ ~(Len(r.val.v) < GammaDefaultLimit)

\* The service answers each request with a full page, a shorter body or a failure;
\* pages holds its answers to the requests the loop makes.
InitGamma ==
    /\ config = Configured
    /\ handles = [data |-> TRUE, gamma |-> TRUE, clob |-> TRUE]
    /\ pages \in {s \in SeqsUpTo(Resp(GammaBodies \cup FullPages), MaxGammaPages) :
                    /\ s # << >>
                    /\ \A i \in 1..(Len(s) - 1) : IsFullPage(s[i])}
    /\ call = [tool |-> "get_markets", args |-> [limit |-> None], resp |-> pages]
    /\ result = Ok(<< >>)
    /\ raised = None
    /\ upstream = << >>
    /\ gamma_run = NoGammaRun
    /\ chain = NoChain
    /\ fetched = 0
    /\ cursor = NoMarketsRun.cursor /\ markets_out = NoMarketsRun.markets_out
    /\ pc = "loop"
    /\ market = NoLiveRun.market /\ now = NoLiveRun.now /\ live = NoLiveRun.live

\* One pass of the while-loop; when it leaves the loop, get_markets returns.
FetchBatch ==
    /\ pc = "loop"
    /\ handles.clob /\ handles.gamma
    /\ fetched < Len(pages)
    /\ LET pass == GammaPass(GammaDefaultLimit, gamma_run, pages[fetched + 1])
           sent == upstream \o pass.reqs
           reply == MarketsReply([out |-> pass.out, reqs |-> sent])
       IN  /\ gamma_run' = pass.run
           /\ upstream' = sent
           /\ IF pass.done
              THEN /\ pc' = "done"
                   /\ result' = reply.out
                   /\ raised' = reply.raised
              ELSE /\ pc' = "loop"
                   /\ UNCHANGED <<result, raised>>
    /\ fetched' = fetched + 1
    /\ UNCHANGED <<config, handles, chain, call, pages, cursor, markets_out, market, now,
                   live>>

NextGamma == FetchBatch

\* The loop makes its next request whenever the service answers.
SpecGamma == InitGamma /\ [][NextGamma]_vars /\ WF_vars(FetchBatch)

\* The response is a list of fewer rows than the limit.
IsShortPage(r) == ~r.exc /\ r.val.t = "list" /\ Len(r.val.v) < 100

\* The rows of the first n responses, in order.
RECURSIVE ConcatRows(_, _)
ConcatRows(ps, n) == IF n = 0 THEN << >> ELSE ConcatRows(ps, n - 1) \o ps[n].val.v

Returned == pc = "done" /\ "markets" \in DOMAIN result.val /\ "error" \notin DOMAIN result.val

GammaInStep ==
    /\ Len(upstream) = fetched
    /\ \A i \in 1..fetched :
         upstream[i] = [api |-> "GET /markets",
                        args |-> [active |-> TRUE, closed |-> FALSE, archived |-> FALSE,
                                  limit |-> 100, offset |-> 100 * (i - 1)]]
    /\ \A i \in 1..(fetched - 1) : IsFullPage(pages[i])
    /\ (fetched > 0 /\ IsShortPage(pages[fetched])) =>
           /\ Returned
           /\ result.val.markets = JList(ConcatRows(pages, fetched))
           /\ result.val.count = Len(ConcatRows(pages, fetched))
    /\ (Returned /\ pages[fetched].val.t = "list") => IsShortPage(pages[fetched])
    /\ (fetched > 0 /\ IsFullPage(pages[fetched])) => pc = "loop"

\* C22: get_markets without a limit asks for the pages at offsets 0, 100, 200, ...
\* with active true, closed false, archived false and limit 100; it asks again only
\* after a full page; after the first page of fewer than 100 rows it returns the rows
\* of all the pages it asked for, in order, and their number as count; a listing
\* is returned only after such a page, it is returned when such a page arrives, and
\* while the pages are full the loop goes on asking.
C22_GammaListing ==
    /\ [] GammaInStep
    /\ [] (IsShortPage(pages[Len(pages)]) => <> Returned)
    /\ [] (IsFullPage(pages[Len(pages)]) => <> (pc = "loop" /\ fetched = Len(pages)))

\* Two full pages, then a page of one row: three requests, 201 rows.
C22_Witness ==
    /\ Returned
    /\ fetched = 3
    /\ IsFullPage(pages[1]) /\ IsFullPage(pages[2]) /\ pages[1] # pages[2]
    /\ pages[3] = Ok(JList(<< "m1" >>))
    /\ upstream[3].args.offset = 200
    /\ result.val.count = 201
    /\ result.val.markets.v[201] = "m1"

-----------------------------------------------------------------------------
(* Properties of is_live, get_usdc_balance and the redemptions *)

\* C23: is_live gives a boolean and raises nothing, whatever the record's
\* end_date_iso is: absent, empty, with a trailing Z, with an offset, without an
\* offset, or no timestamp at all.
C23_IsLiveNeverRaises ==
    live # None => (~live[1].exc /\ live[1].val \in BOOLEAN)

\* C24: in a successful result of get_usdc_balance the address is the wallet whose
\* balance was read: the given user, or the configured wallet when none is given.
C24_BalanceAddress ==
    (Invoked("get_usdc_balance") /\ "usdc_balance" \in DOMAIN result.val) =>
        /\ upstream = << [api |-> "balanceOf", args |-> [owner |-> result.val.address]] >>
        /\ result.val.address =
               IF call.args.user = None THEN ConfigAddress ELSE call.args.user[1]
        /\ result.val.usdc_balance = call.resp.val


(* The redemptions against the chain. eth.get_transaction_count(self.address) is *)
(* asked without a block, so the node counts the wallet's mined transactions;    *)
(* a transaction the node took is in its pool until a block holds it.            *)

MaxTxs == 3

\* What the library and the node answer when the wallet's mined count is count.
ChainRpc(count) == RpcRespsAt({count})

\* The nonces of the transactions a redeem_position invocation handed to the node.
SentNonces(reqs) ==
    LET subs == SelectSeq(reqs, LAMBDA q : q.api = "send_raw_transaction")
    IN  [k \in 1..Len(subs) |-> subs[k].args.nonce]

\* The steps of redeem_position up to eth.get_transaction_count (data.py:95).
ReadSteps == 3

\* redeem_position is invoked and runs up to its reading of the wallet's count. An
\* invocation that fails by then is answered at once; the others wait for the node
\* (gas_price, estimate_gas) before they submit, and a block can be mined meanwhile.
\* The handler has no await, so no other invocation runs inside it.
RedeemRead ==
    /\ call.tool = "none"
    /\ chain.reading = None
    /\ Len(chain.sent) < MaxTxs
    /\ \E condition_id \in ConditionIds, index_sets \in {<< 1, 2 >>},
          rpc \in ChainRpc(chain.count) :
        LET r == redeem_position(condition_id, index_sets, rpc)
            last == LastStep(StepOutcomes(condition_id, rpc))
        IN  IF ~handles.data \/ last <= ReadSteps
            THEN /\ call' = [tool |-> "redeem_position",
                             args |-> [condition_id |-> condition_id.text,
                                       index_sets |-> index_sets],
                             resp |-> [rpc |-> rpc]]
                 /\ result' = r.out
                 /\ raised' = r.raised
                 /\ upstream' = r.reqs
                 /\ UNCHANGED chain
            ELSE /\ chain' = [chain EXCEPT !.reading =
                                  Some([condition_id |-> condition_id,
                                        index_sets |-> index_sets, rpc |-> rpc])]
                 /\ UNCHANGED <<call, result, raised, upstream>>
    /\ UNCHANGED <<config, handles, gamma_run, pages, fetched, cursor, markets_out, pc,
                   market, now, live>>

\* The invocation that read the count runs on to its return: it submits the
\* transaction with the count it read as the nonce, whatever the count is by now.
RedeemSubmit ==
    /\ chain.reading # None
    /\ LET inv == chain.reading[1]
           r == redeem_position(inv.condition_id, inv.index_sets, inv.rpc)
           nonces == SentNonces(r.reqs)
           taken == IF r.out.exc \/ "error" \in DOMAIN r.out.val THEN {}
                    ELSE {nonces[k] : k \in 1..Len(nonces)}
       IN  /\ call' = [tool |-> "redeem_position",
                       args |-> [condition_id |-> inv.condition_id.text,
                                 index_sets |-> inv.index_sets],
                       resp |-> [rpc |-> inv.rpc]]
           /\ result' = r.out
           /\ raised' = r.raised
           /\ upstream' = r.reqs
           /\ chain' = [chain EXCEPT !.sent = chain.sent \o nonces,
                                     !.pending = chain.pending \cup taken,
                                     !.reading = None]
    /\ UNCHANGED <<config, handles, gamma_run, pages, fetched, cursor, markets_out, pc,
                   market, now, live>>

\* A block holds the wallet's pooled transaction of the next nonce.
Confirm ==
    /\ chain.count \in chain.pending
    /\ chain' = [chain EXCEPT !.count = chain.count + 1,
                              !.pending = chain.pending \ {chain.count}]
    /\ UNCHANGED <<config, handles, call, result, raised, upstream, gamma_run, pages,
                   fetched, cursor, markets_out, pc, market, now, live>>

NextChain ==
    \/ RedeemRead
    \/ RedeemSubmit
    \/ Confirm
    \/ Respond

SpecChain == Init /\ [][NextChain]_vars

\* C25: no two transactions that redeem_position invocations submitted from the
\* server's wallet carry the same nonce, whatever the order of the invocations and
\* of the confirmations of earlier transactions.
C25_DistinctNonces ==
    \A i, j \in 1..Len(chain.sent) : i # j => chain.sent[i] # chain.sent[j]

====
